---- MODULE Spec2Model ----
(***************************************************************************)
(* Linkly URL shortener: the Base62 code codec (lib/id-generator.js), the  *)
(* write path (UrlService.createShortUrl behind POST /api/shorten), the    *)
(* cache-first read path (RedirectService.getOriginalUrl behind            *)
(* GET /:shortCode), the expired-record cleanup job, the in-process cache  *)
(* client and the urls table of db/schema.sql.                             *)
(*                                                                         *)
(* Every `await` of the JavaScript code is an interleaving point: one      *)
(* action is the awaited store or cache operation together with the        *)
(* synchronous code that follows it up to the next awaited operation; the  *)
(* synchronous head of a route handler runs with its first operation.      *)
(* Fire-and-forget promises (incrementClickCount, deleteExpiredUrl) are    *)
(* detached tasks kept in the bag `tasks`.                                 *)
(***************************************************************************)
EXTENDS Integers, Sequences, FiniteSets, Bags, TLC

(***************************************************************************)
(* Bounds of the model.                                                    *)
(***************************************************************************)
\* ids 0..MaxCodecId (and the landmark ids below) are fed to the codec
MaxCodecId == 130
\* number of concurrent HTTP requests in flight
NumProcs == 2
\* the store's id sequence hands out at most MaxId ids
MaxId == 2
\* the clock runs from 0 to MaxTime
MaxTime == 2
\* config.redis.ttl (86400 s) counted in clock ticks
TtlTicks == 2
\* the number of HTTP requests the service accepts in one run
MaxRequests == 3
\* the number of store and cache operations that throw in one run
MaxFaults == 1
\* the preload job runs against tables of at most MaxPreloadRows rows with
\* click counts up to MaxClicks, and is asked for at most MaxLimit rows
MaxPreloadRows == 3
MaxClicks == 2
MaxLimit == 2
\* the number of preload jobs in one run
MaxPreloads == 1
\* strings of at most MaxStrLen characters are given to the decoder
MaxStrLen == 3
\* estimateLength is given the counts 62^k + d for k up to MaxPower and d up
\* to MaxExcess
MaxPower == 9
MaxExcess == 40

(***************************************************************************)
(* Code codec: lib/id-generator.js                                         *)
(***************************************************************************)
\* a slip in the constant: the upper-case letters come before the lower-case
Base62AlphabetUpperFirst ==
    << "0", "1", "2", "3", "4", "5", "6", "7", "8", "9",
       "A", "B", "C", "D", "E", "F", "G", "H", "I", "J", "K", "L", "M",
       "N", "O", "P", "Q", "R", "S", "T", "U", "V", "W", "X", "Y", "Z",
       "a", "b", "c", "d", "e", "f", "g", "h", "i", "j", "k", "l", "m",
       "n", "o", "p", "q", "r", "s", "t", "u", "v", "w", "x", "y", "z" >>

BASE62_ALPHABET ==
    << "0", "1", "2", "3", "4", "5", "6", "7", "8", "9",
       "a", "b", "c", "d", "e", "f", "g", "h", "i", "j", "k", "l", "m",
       "n", "o", "p", "q", "r", "s", "t", "u", "v", "w", "x", "y", "z",
       "A", "B", "C", "D", "E", "F", "G", "H", "I", "J", "K", "L", "M",
       "N", "O", "P", "Q", "R", "S", "T", "U", "V", "W", "X", "Y", "Z" >>

BASE == 62

\* BASE62_ALPHABET[n] of the JavaScript string (0-based)
AlphabetAt(n) == BASE62_ALPHABET[n + 1]

\* BASE62_ALPHABET.includes(char)
AlphabetIncludes(char) == \E i \in 1..Len(BASE62_ALPHABET) : BASE62_ALPHABET[i] = char

\* BASE62_ALPHABET.indexOf(char), for a char of the alphabet
AlphabetIndexOf(char) ==
    (CHOOSE i \in 1..Len(BASE62_ALPHABET) :
        /\ BASE62_ALPHABET[i] = char
        /\ \A j \in 1..(i - 1) : BASE62_ALPHABET[j] # char) - 1

\* the while loop of idToBase62: result = ALPHABET[num % BASE] + result
RECURSIVE EncodeLoop(_, _)
EncodeLoop(num, result) ==
    IF num > 0
    THEN EncodeLoop(num \div BASE, <<AlphabetAt(num % BASE)>> \o result)
    ELSE result

\* a slip in the loop: the digit is appended instead of prepended
RECURSIVE EncodeLoopAppend(_, _)
EncodeLoopAppend(num, result) ==
    IF num > 0
    THEN EncodeLoopAppend(num \div BASE, result \o <<AlphabetAt(num % BASE)>>)
    ELSE result

\* a slip in the loop: the digit is taken modulo BASE - 1
RECURSIVE EncodeLoopMod(_, _)
EncodeLoopMod(num, result) ==
    IF num > 0
    THEN EncodeLoopMod(num \div BASE, <<AlphabetAt(num % (BASE - 1))>> \o result)
    ELSE result

idToBase62Appending(id) ==
    IF id = 0 THEN <<AlphabetAt(0)>> ELSE EncodeLoopAppend(id, <<>>)

idToBase62Mod(id) ==
    IF id = 0 THEN <<AlphabetAt(0)>> ELSE EncodeLoopMod(id, <<>>)

\* a slip in idToBase62: the id === 0 case is missing
idToBase62NoZero(id) == EncodeLoop(id, <<>>)

\* idToBase62(id) for an integer id >= 0; a code is the sequence of its characters
idToBase62(id) ==
    IF id = 0 THEN <<AlphabetAt(0)>> ELSE EncodeLoop(id, <<>>)

\* a slip in the loop: the characters are read from the right
RECURSIVE DecodeLoopFromRight(_, _, _)
DecodeLoopFromRight(str, i, result) ==
    IF i <= Len(str)
    THEN DecodeLoopFromRight(str, i + 1,
                             result * BASE + AlphabetIndexOf(str[Len(str) + 1 - i]))
    ELSE result

\* the accumulation loop of base62ToId: result = result * BASE + value
RECURSIVE DecodeLoop(_, _, _)
DecodeLoop(str, i, result) ==
    IF i <= Len(str)
    THEN DecodeLoop(str, i + 1, result * BASE + AlphabetIndexOf(str[i]))
    ELSE result

\* base62ToId(str): the number, or the message of the Error it throws
base62ToId(str) ==
    IF Len(str) = 0
    THEN [error |-> "Input must be a non-empty string", value |-> 0]
    ELSE IF \E i \in 1..Len(str) : ~AlphabetIncludes(str[i])
    THEN [error |-> "Invalid Base62 character", value |-> 0]
    ELSE [error |-> "", value |-> DecodeLoop(str, 1, 0)]


(***************************************************************************)
(* State                                                                   *)
(***************************************************************************)
VARIABLES
    now,          \* the wall clock read by new Date() and NOW()
    urls,         \* the urls table: id -> row
    seq,          \* the last value handed out by the BIGSERIAL sequence of urls.id
    cacheReady,   \* cache.isReady
    memoryCache,  \* the cache's Map: short code -> original url
    timers,       \* the pending setTimeout callbacks of cache.set: [key, due]
    call,         \* the HTTP request each process is serving, with its locals
    tasks,        \* detached promises: bag of [kind, code, pc]
    requests,     \* the number of HTTP requests accepted so far
    faults,       \* the number of store and cache operations that have thrown
    codec         \* the codec exercise: its inputs and results

vars ==
    <<now, urls, seq, cacheReady, memoryCache, timers, call, tasks, requests,
      faults, codec>>

Procs == 1..NumProcs

\* expires_at: NULL, or <<t>> for the timestamp t
NULL == <<>>

\* the placeholder short_code of the insert step
TEMP == <<"T", "E", "M", "P">>

\* request urls: u1 and u2 are valid absolute http urls; " u1" is u1 with
\* surrounding whitespace; "" is missing, "bad" fails validator.isURL and
\* "long" is a valid url of more than config.app.maxUrlLength characters
ValidUrls == {"u1", "u2"}
RequestUrls == ValidUrls \cup {"", "bad", "long", " u1"}

\* String.prototype.trim on the request urls
Trim(u) == IF u = " u1" THEN "u1" ELSE u

\* validator.isURL(u, {require_protocol: true, protocols: ['http', 'https']})
IsURL(u) == u \in ValidUrls \cup {"long"}

\* originalUrl.length > config.app.maxUrlLength
TooLong(u) == u = "long"

\* the expires_at of a request body: absent, unparseable, or a date
RequestExpiries ==
    {[kind |-> "absent", t |-> 0], [kind |-> "invalid", t |-> 0]}
        \cup {[kind |-> "date", t |-> t] : t \in 0..(MaxTime - 1)}

\* the short codes requested on GET /:shortCode: the codes of the ids the
\* store can hand out, and the placeholder
RequestCodes == {idToBase62(i) : i \in 1..MaxId} \cup {TEMP}

\* /^[0-9a-zA-Z]+$/.test(shortCode)
CodeFormatOk(code) ==
    /\ Len(code) > 0
    /\ \A i \in 1..Len(code) : AlphabetIncludes(code[i])

Idle ==
    [op |-> "idle", pc |-> "idle", url |-> "", exp |-> NULL, code |-> <<>>,
     id |-> 0, ret |-> "none", isNew |-> FALSE, error |-> "", status |-> 0,
     from |-> "", warn |-> {}, rows |-> <<>>, count |-> 0, shortUrl |-> <<>>,
     at |-> 0]

\* ids already handed out plus shorten requests that may still ask for one
IdsCommitted ==
    seq + Cardinality({p \in Procs : call[p].pc \in {"w_dedup", "w_insert"}})

\* process p is not serving a request: it has answered its last one, if any
Free(p) == call[p].pc \in {"idle", "done"}

\* an incoming request is served by the first free process
Accepts(p) ==
    /\ Free(p)
    /\ \A q \in Procs : q < p => ~Free(q)
    /\ requests < MaxRequests


(***************************************************************************)
(* The urls table (db/schema.sql) and the SQL statements of the services   *)
(***************************************************************************)
\* expires_at IS NOT NULL AND expires_at < NOW(); new Date(expires_at) < new Date()
Expired(exp, t) == exp # NULL /\ exp[1] < t

\* CONSTRAINT short_code_length, CONSTRAINT short_code_format
CodeConstraintsOk(code) == Len(code) <= 10 /\ CodeFormatOk(code)

\* short_code VARCHAR(10) UNIQUE NOT NULL, CREATE UNIQUE INDEX idx_short_code:
\* a row other than `self` already carries `code`
UniqueViolated(table, code, self) ==
    \E i \in DOMAIN table : i # self /\ table[i].short_code = code

\* a slip in the query: it never matches a row
DedupRowsNone(table, url) == {}

\* a slip in the query: the expires_at IS NULL condition is left out
DedupRowsAnyExpiry(table, url) ==
    {i \in DOMAIN table : table[i].original_url = url}

\* SELECT short_code FROM urls WHERE original_url = $1 AND expires_at IS NULL:
\* the ids of the rows that match (LIMIT 1 returns any one of them)
DedupRows(table, url) ==
    {i \in DOMAIN table :
        table[i].original_url = url /\ table[i].expires_at = NULL}

\* SELECT ... FROM urls WHERE short_code = $1
RowsByCode(table, code) == {i \in DOMAIN table : table[i].short_code = code}

\* getUrlStats: SELECT ... FROM urls WHERE short_code = $1; null when
\* result.rows.length === 0, else result.rows[0] (here <<row>>)
getUrlStats(table, code) ==
    IF RowsByCode(table, code) = {} THEN NULL
    ELSE <<table[CHOOSE i \in RowsByCode(table, code) : TRUE]>>

\* INSERT INTO urls (original_url, expires_at, short_code) VALUES ($1, $2, $3):
\* click_count takes its DEFAULT 0
InsertedRow(url, exp, code) ==
    [original_url |-> url, expires_at |-> exp, short_code |-> code,
     click_count |-> 0]

\* the table with row `id` added
WithRow(table, id, row) ==
    [i \in DOMAIN table \cup {id} |-> IF i = id THEN row ELSE table[i]]

\* the table without the rows `ids`
WithoutRows(table, ids) == [i \in DOMAIN table \ ids |-> table[i]]

\* a slip in the UPDATE: it also resets click_count
UpdatedCodeResetsClicks(table, id, code) ==
    [i \in DOMAIN table |->
        IF i = id THEN [table[i] EXCEPT !.short_code = code, !.click_count = 0]
        ELSE table[i]]

\* UPDATE urls SET short_code = $1 WHERE id = $2
UpdatedCode(table, id, code) ==
    [i \in DOMAIN table |->
        IF i = id THEN [table[i] EXCEPT !.short_code = code] ELSE table[i]]

\* a slip in the UPDATE: no row is touched
IncrementedClicksNothing(table, code) == table

\* a slip in the UPDATE: the counter is written as 1, not incremented
IncrementedClicksOnce(table, code) ==
    [i \in DOMAIN table |->
        IF table[i].short_code = code
        THEN [table[i] EXCEPT !.click_count = 1] ELSE table[i]]

\* UPDATE urls SET click_count = click_count + 1 WHERE short_code = $1
IncrementedClicks(table, code) ==
    [i \in DOMAIN table |->
        IF table[i].short_code = code
        THEN [table[i] EXCEPT !.click_count = @ + 1] ELSE table[i]]

\* a slip in the DELETE: it stops after the first expired row
ExpiredRowsFirst(table, t) ==
    {i \in DOMAIN table :
        /\ Expired(table[i].expires_at, t)
        /\ \A j \in DOMAIN table : Expired(table[j].expires_at, t) => i <= j}

\* the rows DELETE FROM urls WHERE expires_at IS NOT NULL AND expires_at < NOW() removes
ExpiredRows(table, t) == {i \in DOMAIN table : Expired(table[i].expires_at, t)}

\* the RETURNING short_code rows of the cleanup DELETE, in id order
RECURSIVE ReturnedCodes(_, _)
ReturnedCodes(table, ids) ==
    IF ids = {} THEN <<>>
    ELSE LET i == CHOOSE x \in ids : \A y \in ids : x <= y
         IN  <<table[i].short_code>> \o ReturnedCodes(table, ids \ {i})

(***************************************************************************)
(* The cache client: cache/client.js                                       *)
(***************************************************************************)
\* cache.get(key): memoryCache.get(key) || null
CacheHas(c, key) == key \in DOMAIN c

\* a slip in cache.set: the Map is left untouched
CacheAfterSetNothing(c, key, value) == c

\* memoryCache.set(key, value)
CacheAfterSet(c, key, value) ==
    [k \in DOMAIN c \cup {key} |-> IF k = key THEN value ELSE c[k]]

\* a slip in cache.del: the Map is left untouched
CacheAfterDelNothing(c, key) == c

\* memoryCache.delete(key)
CacheAfterDel(c, key) == [k \in DOMAIN c \ {key} |-> c[k]]

\* setTimeout(() => memoryCache.delete(key), options.EX * 1000): the timers
\* pending after a set at time t (a timer due after MaxTime never runs and is
\* not kept)
TimersAfterSet(ts, key, t) ==
    IF t + TtlTicks <= MaxTime
    THEN ts \cup {[key |-> key, due |-> t + TtlTicks]}
    ELSE ts


(***************************************************************************)
(* Initial state, when startServer() begins to listen: an empty table, the *)
(* sequence unused, and cache.isReady as initializeCache() left it (true   *)
(* when cache.connect() returned, false when it threw).                    *)
(***************************************************************************)
CodecIdle ==
    [pc |-> "off", id |-> 0, id2 |-> 0, code |-> <<>>, code2 |-> <<>>,
     decoded |-> [error |-> "", value |-> 0],
     count |-> [pos |-> FALSE, k |-> 0, d |-> 0], length |-> 0,
     capacity |-> [pos |-> FALSE, k |-> 0, d |-> 0]]

Init ==
    /\ now = 0
    /\ urls = [i \in {} |-> 0]
    /\ seq = 0
    /\ cacheReady \in BOOLEAN
    /\ memoryCache = [k \in {} |-> ""]
    /\ timers = {}
    /\ call = [p \in Procs |-> Idle]
    /\ tasks = EmptyBag
    /\ codec = CodecIdle
    /\ requests = 0
    /\ faults = 0

\* request p ends: its locals become those of `r`
Becomes(p, r) == call' = [call EXCEPT ![p] = r]

\* the operation of this step throws (store unreachable, cache error) / does not
Faulty == faults < MaxFaults /\ faults' = faults + 1
Sound == faults' = faults

\* a detached promise is started / has settled
Spawned(t) == tasks (+) SetToBag({t})
Settled(t) == tasks (-) SetToBag({t})

IncrementTask(code) == [kind |-> "incr", code |-> code, pc |-> "db"]
DeleteTask(code) == [kind |-> "del", code |-> code, pc |-> "db"]

(***************************************************************************)
(* Environment: the clock and the cache's timers                           *)
(***************************************************************************)
Tick ==
    /\ now < MaxTime
    /\ now' = now + 1
    /\ UNCHANGED <<urls, seq, cacheReady, memoryCache, timers, call, tasks, requests,
                   faults, codec>>

\* the setTimeout callback of cache.set: memoryCache.delete(key)
CacheTimerFire(t) ==
    /\ t \in timers
    /\ t.due <= now
    /\ memoryCache' = CacheAfterDel(memoryCache, t.key)
    /\ timers' = timers \ {t}
    /\ UNCHANGED <<now, urls, seq, cacheReady, call, tasks, requests, faults, codec>>

(***************************************************************************)
(* Write path: POST /api/shorten and UrlService.createShortUrl             *)
(***************************************************************************)
\* a slip in the route: the expiry is never compared with the clock
ExpiryInPastNever(rawExp, t) == FALSE

\* routes.js: expiresAt < new Date()
ExpiryInPast(rawExp, t) == rawExp.kind = "date" /\ rawExp.t < t

\* the route's catch: res.status(400).json({ error: error.message })
Rejected(message) ==
    [Idle EXCEPT !.op = "shorten", !.pc = "done", !.ret = "throw",
                 !.error = message, !.status = 400]

\* config.app.baseUrl
BaseUrl == "http://localhost:3000"

\* `${config.app.baseUrl}/${shortCode}`
ShortUrl(code) == <<BaseUrl, "/">> \o code

\* the 201 response of the route with createShortUrl's return value
Created(c, code, isNew) ==
    [c EXCEPT !.pc = "done", !.ret = "value", !.code = code, !.isNew = isNew,
              !.shortUrl = ShortUrl(code), !.status = 201, !.exp = NULL]

\* a slip in the store: the id is one more than the highest id in the table
\* (SELECT MAX(id) + 1) instead of the next value of the sequence
InsertStepReusesIds(p, c) ==
    \/ /\ Faulty
       /\ Becomes(p, Rejected("store unavailable"))
       /\ UNCHANGED <<urls, seq>>
    \/ LET id == IF DOMAIN urls = {} THEN 1
                 ELSE 1 + CHOOSE i \in DOMAIN urls : \A j \in DOMAIN urls : j <= i
       IN  /\ Sound
           /\ id <= MaxId
           /\ seq' = id
           /\ IF UniqueViolated(urls, TEMP, id)
              THEN /\ Becomes(p, Rejected("duplicate key value"))
                   /\ UNCHANGED urls
              ELSE /\ urls' = WithRow(urls, id, InsertedRow(c.url, c.exp, TEMP))
                   /\ Becomes(p, [c EXCEPT !.pc = "w_update", !.id = id,
                                           !.code = idToBase62(id)])

\* a slip in step 3: the INSERT is skipped when a non-expiring row of the url
\* has appeared since the duplicate check
InsertStepUnlessPresent(p, c) ==
    \/ /\ Faulty
       /\ Becomes(p, Rejected("store unavailable"))
       /\ UNCHANGED <<urls, seq>>
    \/ /\ Sound
       /\ c.exp = NULL
       /\ \E i \in DedupRows(urls, c.url) :
             Becomes(p, Created(c, urls[i].short_code, FALSE))
       /\ UNCHANGED <<urls, seq>>
    \/ LET id == seq + 1
       IN  /\ Sound
           /\ c.exp # NULL \/ DedupRows(urls, c.url) = {}
           /\ seq' = id
           /\ IF UniqueViolated(urls, TEMP, id)
              THEN /\ Becomes(p, Rejected("duplicate key value"))
                   /\ UNCHANGED urls
              ELSE /\ urls' = WithRow(urls, id, InsertedRow(c.url, c.exp, TEMP))
                   /\ Becomes(p, [c EXCEPT !.pc = "w_update", !.id = id,
                                           !.code = idToBase62(id)])

\* step 3: INSERT ... VALUES ($1, $2, 'TEMP') RETURNING id, then step 4;
\* the sequence value is used up even when the INSERT is refused
InsertStep(p, c) ==
    \/ /\ Faulty
       /\ Becomes(p, Rejected("store unavailable"))
       /\ UNCHANGED <<urls, seq>>
    \/ LET id == seq + 1
       IN  /\ Sound
           /\ seq' = id
           /\ IF UniqueViolated(urls, TEMP, id)
              THEN /\ Becomes(p, Rejected("duplicate key value"))
                   /\ UNCHANGED urls
              ELSE /\ urls' = WithRow(urls, id, InsertedRow(c.url, c.exp, TEMP))
                   /\ Becomes(p, [c EXCEPT !.pc = "w_update", !.id = id,
                                           !.code = idToBase62(id)])

\* a slip in step 2: no catch, the error of the deduplication SELECT reaches
\* the route
DedupStepFatal(p, c) ==
    \/ /\ Faulty
       /\ Becomes(p, Rejected("store unavailable"))
       /\ UNCHANGED <<urls, seq>>
    \/ /\ Sound
       /\ DedupRows(urls, c.url) = {}
       /\ Becomes(p, [c EXCEPT !.pc = "w_insert"])
       /\ UNCHANGED <<urls, seq>>
    \/ /\ Sound
       /\ \E i \in DedupRows(urls, c.url) :
             Becomes(p, Created(c, urls[i].short_code, FALSE))
       /\ UNCHANGED <<urls, seq>>

\* step 2: the deduplication SELECT; its failure is caught and logged, and
\* without a row the INSERT is next
DedupStep(p, c) ==
    \/ /\ Faulty
       /\ Becomes(p, [c EXCEPT !.pc = "w_insert", !.warn = @ \cup {"dedup"}])
       /\ UNCHANGED <<urls, seq>>
    \/ /\ Sound
       /\ DedupRows(urls, c.url) = {}
       /\ Becomes(p, [c EXCEPT !.pc = "w_insert"])
       /\ UNCHANGED <<urls, seq>>
    \/ /\ Sound
       /\ \E i \in DedupRows(urls, c.url) :
             Becomes(p, Created(c, urls[i].short_code, FALSE))
       /\ UNCHANGED <<urls, seq>>

\* the route's checks, createShortUrl's validation (its step 1), and the
\* first statement sent to the store
PostShorten(p, rawUrl, rawExp) ==
    /\ Accepts(p)
    /\ IdsCommitted < MaxId
    /\ requests' = requests + 1
    /\ LET exp == IF rawExp.kind = "date" THEN <<rawExp.t>> ELSE NULL
           url == Trim(rawUrl)
           c == [Idle EXCEPT !.op = "shorten", !.url = url, !.exp = exp]
           refusal ==
             IF rawUrl = "" THEN "URL is required"
             ELSE IF rawExp.kind = "invalid" THEN "Invalid expires_at format"
             ELSE IF ExpiryInPast(rawExp, now) THEN "expires_at must be in the future"
             ELSE IF ~IsURL(url) THEN "Invalid URL format"
             ELSE IF TooLong(url) THEN "URL too long"
             ELSE ""
       IN  IF refusal # ""
           THEN /\ Becomes(p, Rejected(refusal))
                /\ UNCHANGED <<urls, seq, faults>>
           ELSE IF exp = NULL THEN DedupStep(p, c)
           ELSE InsertStep(p, c)
    /\ UNCHANGED <<now, cacheReady, memoryCache, timers, tasks, codec>>

\* the INSERT of a request whose deduplication found nothing
InsertRow(p) ==
    /\ call[p].pc = "w_insert"
    /\ InsertStep(p, call[p])
    /\ UNCHANGED <<now, cacheReady, memoryCache, timers, tasks, requests, codec>>

\* step 5: UPDATE urls SET short_code = $1 WHERE id = $2, then the isReady test
UpdateCode(p) ==
    /\ call[p].pc = "w_update"
    /\ \/ /\ Faulty
          /\ Becomes(p, Rejected("store unavailable"))
          /\ UNCHANGED urls
       \/ IF /\ call[p].id \in DOMAIN urls
             /\ \/ UniqueViolated(urls, call[p].code, call[p].id)
                \/ ~CodeConstraintsOk(call[p].code)
          THEN /\ Sound
               /\ Becomes(p, Rejected("duplicate key value"))
               /\ UNCHANGED urls
          ELSE /\ Sound
               /\ urls' = UpdatedCode(urls, call[p].id, call[p].code)
               /\ Becomes(p, IF cacheReady THEN [call[p] EXCEPT !.pc = "w_cache"]
                             ELSE Created(call[p], call[p].code, TRUE))
    /\ UNCHANGED <<now, seq, cacheReady, memoryCache, timers, tasks, requests, codec>>

\* a slip in step 6: the call returns without writing the cache
WarmCacheSkips(p) ==
    /\ call[p].pc = "w_cache"
    /\ Becomes(p, Created(call[p], call[p].code, TRUE))
    /\ UNCHANGED <<now, urls, seq, cacheReady, memoryCache, timers, tasks,
                   requests, faults, codec>>

\* step 6: cache.set(shortCode, originalUrl, { EX }) succeeds
WarmCache(p) ==
    /\ call[p].pc = "w_cache"
    /\ memoryCache' = CacheAfterSet(memoryCache, call[p].code, call[p].url)
    /\ timers' = TimersAfterSet(timers, call[p].code, now)
    /\ Becomes(p, Created(call[p], call[p].code, TRUE))
    /\ UNCHANGED <<now, urls, seq, cacheReady, tasks, requests, faults, codec>>

\* a slip in step 6: no catch, the error of cache.set reaches the route
WarmCacheFailsUncaught(p) ==
    /\ call[p].pc = "w_cache"
    /\ Faulty
    /\ Becomes(p, Rejected("cache unavailable"))
    /\ UNCHANGED <<now, urls, seq, cacheReady, memoryCache, timers, tasks,
                   requests, codec>>

\* step 6: cache.set throws; the catch logs 'Failed to warm cache'
WarmCacheFails(p) ==
    /\ call[p].pc = "w_cache"
    /\ Faulty
    /\ Becomes(p, Created([call[p] EXCEPT !.warn = @ \cup {"warm"}],
                          call[p].code, TRUE))
    /\ UNCHANGED <<now, urls, seq, cacheReady, memoryCache, timers, tasks,
                   requests, codec>>

(***************************************************************************)
(* Read path: GET /:shortCode and RedirectService.getOriginalUrl           *)
(***************************************************************************)
\* config.app.redirectType
RedirectType == 302

\* getOriginalUrl returned originalUrl (`from` the cache or the store); the
\* route then evaluates
\* res.redirect(config.app.redirectType, originalUrl), and routes.js binds no
\* `config`: the ReferenceError lands in the route's catch, which answers 500
Found(c, url, from) ==
    [c EXCEPT !.pc = "done", !.ret = "value", !.url = url, !.from = from,
              !.status = 500]

\* getOriginalUrl returned null: 404
NotFound(c) == [c EXCEPT !.pc = "done", !.ret = "null", !.status = 404]

\* getOriginalUrl threw: the route's catch answers 500
ReadFailed(c) ==
    [c EXCEPT !.pc = "done", !.ret = "throw", !.error = "store unavailable",
              !.status = 500]

\* the route's format and length checks: the 400 it answers, or ""
CodeRefusal(code) ==
    IF ~CodeFormatOk(code) THEN "Invalid short code format"
    ELSE IF Len(code) > 10 THEN "Short code too long"
    ELSE ""

\* the route's checks and step 1: cache.get when the cache is ready
\* (a failing get is caught and logged); a hit returns at once
GetShortCode(p, code) ==
    /\ Accepts(p)
    /\ requests' = requests + 1
    /\ LET c == [Idle EXCEPT !.op = "redirect", !.code = code]
       IN  IF CodeRefusal(code) # ""
           THEN /\ Becomes(p, [c EXCEPT !.pc = "done", !.error = CodeRefusal(code),
                                        !.status = 400])
                /\ UNCHANGED <<tasks, faults>>
           ELSE \/ /\ ~cacheReady
                   /\ Becomes(p, [c EXCEPT !.pc = "r_db"])
                   /\ UNCHANGED <<tasks, faults>>
                \/ /\ cacheReady
                   /\ Faulty
                   /\ Becomes(p, [c EXCEPT !.pc = "r_db", !.warn = {"lookup"}])
                   /\ UNCHANGED tasks
                \/ /\ cacheReady
                   /\ ~CacheHas(memoryCache, code)
                   /\ Becomes(p, [c EXCEPT !.pc = "r_db"])
                   /\ UNCHANGED <<tasks, faults>>
                \/ /\ cacheReady
                   /\ CacheHas(memoryCache, code)
                   /\ Sound
                   /\ tasks' = Spawned(IncrementTask(code))
                   /\ Becomes(p, Found(c, memoryCache[code], "cache"))
    /\ UNCHANGED <<now, urls, seq, cacheReady, memoryCache, timers, codec>>

\* a slip in step 3: the expiry of the row is not tested
RowIsDeadNever(row, t) == FALSE

\* step 3: expires_at && new Date(expires_at) < new Date()
RowIsDead(row, t) == Expired(row.expires_at, t)

\* a slip in step 2: a code without a row is treated like an expired one and
\* the detached delete is started
DbLookupDeletesOnMiss(p) ==
    /\ call[p].pc = "r_db"
    /\ \/ /\ Faulty
          /\ Becomes(p, ReadFailed(call[p]))
          /\ UNCHANGED tasks
       \/ /\ Sound
          /\ RowsByCode(urls, call[p].code) = {}
          /\ tasks' = Spawned(DeleteTask(call[p].code))
          /\ Becomes(p, NotFound(call[p]))
       \/ \E i \in RowsByCode(urls, call[p].code) :
           Sound /\
             IF RowIsDead(urls[i], now)
             THEN /\ tasks' = Spawned(DeleteTask(call[p].code))
                  /\ Becomes(p, NotFound(call[p]))
             ELSE IF cacheReady
             THEN /\ Becomes(p, [call[p] EXCEPT !.pc = "r_set",
                                              !.url = urls[i].original_url])
                  /\ UNCHANGED tasks
             ELSE /\ tasks' = Spawned(IncrementTask(call[p].code))
                  /\ Becomes(p, Found(call[p], urls[i].original_url, "store"))
    /\ UNCHANGED <<now, urls, seq, cacheReady, memoryCache, timers, requests, codec>>

\* steps 2 and 3: the SELECT by short_code, the expiry test, the isReady test
DbLookup(p) ==
    /\ call[p].pc = "r_db"
    /\ \/ /\ Faulty
          /\ Becomes(p, ReadFailed(call[p]))
          /\ UNCHANGED tasks
       \/ /\ Sound
          /\ RowsByCode(urls, call[p].code) = {}
          /\ Becomes(p, NotFound(call[p]))
          /\ UNCHANGED tasks
       \/ \E i \in RowsByCode(urls, call[p].code) :
           Sound /\
             IF RowIsDead(urls[i], now)
             THEN /\ tasks' = Spawned(DeleteTask(call[p].code))
                  /\ Becomes(p, NotFound(call[p]))
             ELSE IF cacheReady
             THEN /\ Becomes(p, [call[p] EXCEPT !.pc = "r_set",
                                              !.url = urls[i].original_url])
                  /\ UNCHANGED tasks
             ELSE /\ tasks' = Spawned(IncrementTask(call[p].code))
                  /\ Becomes(p, Found(call[p], urls[i].original_url, "store"))
    /\ UNCHANGED <<now, urls, seq, cacheReady, memoryCache, timers, requests, codec>>

\* steps 4 and 5: cache.set succeeds, then the detached increment
WarmOnMiss(p) ==
    /\ call[p].pc = "r_set"
    /\ memoryCache' = CacheAfterSet(memoryCache, call[p].code, call[p].url)
    /\ timers' = TimersAfterSet(timers, call[p].code, now)
    /\ Becomes(p, Found(call[p], call[p].url, "store"))
    /\ tasks' = Spawned(IncrementTask(call[p].code))
    /\ UNCHANGED <<now, urls, seq, cacheReady, requests, faults, codec>>

\* steps 4 and 5: cache.set throws and the catch logs it, then the increment
WarmOnMissFails(p) ==
    /\ call[p].pc = "r_set"
    /\ Faulty
    /\ Becomes(p, Found([call[p] EXCEPT !.warn = @ \cup {"warm"}], call[p].url,
                         "store"))
    /\ tasks' = Spawned(IncrementTask(call[p].code))
    /\ UNCHANGED <<now, urls, seq, cacheReady, memoryCache, timers, requests, codec>>

(***************************************************************************)
(* Detached promises: incrementClickCount and deleteExpiredUrl             *)
(***************************************************************************)
\* a slip in the detached call: a failed UPDATE is attempted again
RunIncrementRetries(t) ==
    /\ BagIn(t, tasks)
    /\ t.kind = "incr"
    /\ \/ Sound /\ urls' = IncrementedClicks(urls, t.code) /\ tasks' = Settled(t)
       \/ Faulty /\ UNCHANGED <<urls, tasks>>
    /\ UNCHANGED <<now, seq, cacheReady, memoryCache, timers, call, requests, codec>>

\* incrementClickCount: the UPDATE, or its failure, which is only logged
RunIncrement(t) ==
    /\ BagIn(t, tasks)
    /\ t.kind = "incr"
    /\ \/ Sound /\ urls' = IncrementedClicks(urls, t.code)
       \/ Faulty /\ UNCHANGED urls
    /\ tasks' = Settled(t)
    /\ UNCHANGED <<now, seq, cacheReady, memoryCache, timers, call, requests, codec>>

\* deleteExpiredUrl: DELETE FROM urls WHERE short_code = $1; when it throws,
\* the promise rejects before cache.del is reached
RunDelete(t) ==
    /\ BagIn(t, tasks)
    /\ t.kind = "del"
    /\ t.pc = "db"
    /\ \/ /\ Sound
          /\ urls' = WithoutRows(urls, RowsByCode(urls, t.code))
          /\ tasks' = Settled(t) (+) SetToBag({[t EXCEPT !.pc = "cache"]})
       \/ /\ Faulty
          /\ UNCHANGED urls
          /\ tasks' = Settled(t)
    /\ UNCHANGED <<now, seq, cacheReady, memoryCache, timers, call, requests, codec>>

\* deleteExpiredUrl: cache.del(shortCode); its failure is caught
RunDeleteCache(t) ==
    /\ BagIn(t, tasks)
    /\ t.kind = "del"
    /\ t.pc = "cache"
    /\ \/ Sound /\ memoryCache' = CacheAfterDel(memoryCache, t.code)
       \/ Faulty /\ UNCHANGED memoryCache
    /\ tasks' = Settled(t)
    /\ UNCHANGED <<now, urls, seq, cacheReady, timers, call, requests, codec>>

(***************************************************************************)
(* Maintenance: POST /api/admin/cleanup and UrlService.cleanupExpiredUrls  *)
(***************************************************************************)
\* the DELETE ... RETURNING short_code; a store failure is answered 500
PostCleanup(p) ==
    /\ Accepts(p)
    /\ requests' = requests + 1
    /\ LET c == [Idle EXCEPT !.op = "cleanup"]
           gone == ExpiredRows(urls, now)
       IN  \/ /\ Faulty
              /\ Becomes(p, [c EXCEPT !.pc = "done", !.ret = "throw",
                                      !.error = "Cleanup failed", !.status = 500])
              /\ UNCHANGED urls
           \/ /\ Sound
              /\ urls' = WithoutRows(urls, gone)
              /\ Becomes(p,
                   IF gone = {}
                   THEN [c EXCEPT !.pc = "done", !.ret = "value", !.status = 200]
                   ELSE [c EXCEPT !.pc = "c_evict", !.count = Cardinality(gone),
                                  !.rows = ReturnedCodes(urls, gone)])
    /\ UNCHANGED <<now, seq, cacheReady, memoryCache, timers, tasks, codec>>

\* one turn of the loop: cache.del(row.short_code); its failure is caught
CleanupEvict(p) ==
    /\ call[p].pc = "c_evict"
    /\ LET c == [call[p] EXCEPT !.rows = Tail(@)]
           d == IF c.rows = <<>>
                THEN [c EXCEPT !.pc = "done", !.ret = "value", !.status = 200]
                ELSE c
       IN  \/ /\ Sound
              /\ memoryCache' = CacheAfterDel(memoryCache, Head(call[p].rows))
              /\ Becomes(p, d)
           \/ /\ Faulty
              /\ UNCHANGED memoryCache
              /\ Becomes(p, [d EXCEPT !.warn = @ \cup {"evict"}])
    /\ UNCHANGED <<now, urls, seq, cacheReady, timers, tasks, requests, codec>>

(***************************************************************************)
(* The service                                                             *)
(***************************************************************************)
Next ==
    \/ Tick
    \/ \E t \in timers : CacheTimerFire(t)
    \/ \E p \in Procs, u \in RequestUrls, e \in RequestExpiries : PostShorten(p, u, e)
    \/ \E p \in Procs : InsertRow(p)
    \/ \E p \in Procs : UpdateCode(p)
    \/ \E p \in Procs : WarmCache(p)
    \/ \E p \in Procs : WarmCacheFails(p)
    \/ \E p \in Procs, c \in RequestCodes : GetShortCode(p, c)
    \/ \E p \in Procs : DbLookup(p)
    \/ \E p \in Procs : WarmOnMiss(p)
    \/ \E p \in Procs : WarmOnMissFails(p)
    \/ \E t \in BagToSet(tasks) : RunIncrement(t)
    \/ \E t \in BagToSet(tasks) : RunDelete(t)
    \/ \E t \in BagToSet(tasks) : RunDeleteCache(t)
    \/ \E p \in Procs : PostCleanup(p)
    \/ \E p \in Procs : CleanupEvict(p)

Spec == Init /\ [][Next]_vars

\* the service with its detached increments scheduled: the event loop runs
\* the db.query of every incrementClickCount that was started
FairSpec == Spec /\ WF_vars(\E t \in BagToSet(tasks) : RunIncrement(t))


(***************************************************************************)
(* Maintenance: POST /api/admin/preload-cache and                          *)
(* RedirectService.preloadCache, run against a table of records            *)
(***************************************************************************)
\* parseInt(req.body.limit) || 1000, for a body limit of 0 (also: absent or
\* not a number) or a non-zero integer
PreloadLimit(raw) == IF raw = 0 THEN 1000 ELSE raw

\* the limits sent to the route
RequestLimits == -1..MaxLimit

\* WHERE expires_at IS NULL OR expires_at > NOW()
PreloadLive(row, t) == row.expires_at = NULL \/ row.expires_at[1] > t

\* the sequences of `len` distinct row ids drawn from `ids`
PickedRows(ids, len) ==
    {s \in [1..len -> ids] : \A a, b \in 1..len : a # b => s[a] # s[b]}

\* a slip in the query: ORDER BY id instead of ORDER BY click_count DESC
PreloadResultsById(table, t, limit) ==
    LET live == {i \in DOMAIN table : PreloadLive(table[i], t)}
        len == IF Cardinality(live) < limit THEN Cardinality(live) ELSE limit
    IN  {s \in PickedRows(live, len) :
            /\ \A a, b \in 1..len : a < b => s[a] < s[b]
            /\ \A a \in 1..len : \A j \in live : j < s[a] => \E b \in 1..len : s[b] = j}

\* SELECT short_code, original_url FROM urls WHERE expires_at IS NULL OR
\* expires_at > NOW() ORDER BY click_count DESC LIMIT $1: the row id sequences
\* the store may return (rows of equal click_count come in any order)
PreloadResults(table, t, limit) ==
    LET live == {i \in DOMAIN table : PreloadLive(table[i], t)}
        len == IF Cardinality(live) < limit THEN Cardinality(live) ELSE limit
    IN  {s \in PickedRows(live, len) :
            /\ \A a, b \in 1..len :
                  a < b => table[s[a]].click_count >= table[s[b]].click_count
            /\ \A a \in 1..len : \A j \in live :
                  table[j].click_count > table[s[a]].click_count
                      => \E b \in 1..len : s[b] = j}

\* result.rows of the SELECT for the row ids s
PreloadRows(table, s) ==
    [k \in 1..Len(s) |-> [short_code |-> table[s[k]].short_code,
                          original_url |-> table[s[k]].original_url]]

\* the route and the SELECT of preloadCache; the store refuses a negative
\* LIMIT, and any store failure is answered 500
PostPreload(p, raw) ==
    /\ Accepts(p)
    /\ requests < MaxPreloads
    /\ requests' = requests + 1
    /\ LET c == [Idle EXCEPT !.op = "preload"]
           failed == [c EXCEPT !.pc = "done", !.ret = "throw",
                               !.error = "Cache preload failed", !.status = 500]
       IN  \/ /\ Faulty
              /\ Becomes(p, failed)
           \/ /\ Sound
              /\ PreloadLimit(raw) < 0
              /\ Becomes(p, failed)
           \/ /\ Sound
              /\ PreloadLimit(raw) >= 0
              /\ \E s \in PreloadResults(urls, now, PreloadLimit(raw)) :
                    Becomes(p, IF s = <<>>
                               THEN [c EXCEPT !.pc = "done", !.ret = "value",
                                              !.status = 200]
                               ELSE [c EXCEPT !.pc = "p_set", !.at = 1,
                                              !.rows = PreloadRows(urls, s)])
    /\ UNCHANGED <<now, urls, seq, cacheReady, memoryCache, timers, tasks, codec>>

\* the locals after one turn of the for loop, and the 200 response with
\* loadedCount after the last turn
PreloadTurned(c) ==
    IF c.at = Len(c.rows)
    THEN [c EXCEPT !.pc = "done", !.ret = "value", !.status = 200]
    ELSE [c EXCEPT !.at = @ + 1]

\* one turn of the loop: cache.set(row.short_code, row.original_url, { EX })
\* succeeds, loaded++
PreloadSet(p) ==
    /\ call[p].pc = "p_set"
    /\ LET row == call[p].rows[call[p].at]
       IN  /\ memoryCache' = CacheAfterSet(memoryCache, row.short_code, row.original_url)
           /\ timers' = TimersAfterSet(timers, row.short_code, now)
           /\ Becomes(p, PreloadTurned([call[p] EXCEPT !.count = @ + 1]))
    /\ UNCHANGED <<now, urls, seq, cacheReady, tasks, requests, faults, codec>>

\* a slip in the loop: no catch, a failing cache.set ends the job
PreloadSetFailsAborts(p) ==
    /\ call[p].pc = "p_set"
    /\ Faulty
    /\ Becomes(p, [call[p] EXCEPT !.pc = "done", !.ret = "throw",
                                  !.error = "Cache preload failed", !.status = 500])
    /\ UNCHANGED <<now, urls, seq, cacheReady, memoryCache, timers, tasks,
                   requests, codec>>

\* one turn of the loop: cache.set throws; the catch logs
\* `Failed to preload ${row.short_code}` and the loop goes on
PreloadSetFails(p) ==
    /\ call[p].pc = "p_set"
    /\ Faulty
    /\ Becomes(p, PreloadTurned([call[p] EXCEPT
                      !.warn = @ \cup {call[p].rows[call[p].at].short_code}]))
    /\ UNCHANGED <<now, urls, seq, cacheReady, memoryCache, timers, tasks,
                   requests, codec>>

\* the rows a table can hold when the job is called: row i carries the code
\* of its id
PreloadTables ==
    UNION {[1..n -> [original_url : ValidUrls,
                     expires_at : {NULL} \cup {<<t>> : t \in 1..(MaxTime - 1)},
                     short_code : {idToBase62(i) : i \in 1..MaxPreloadRows},
                     click_count : 0..MaxClicks]] : n \in 0..MaxPreloadRows}

PreloadInit ==
    /\ now = 0
    /\ urls \in {t \in PreloadTables :
                    \A i \in DOMAIN t : /\ t[i].short_code = idToBase62(i)
                                        /\ t[i].original_url = IF i % 2 = 1 THEN "u1" ELSE "u2"}
    /\ seq = Cardinality(DOMAIN urls)
    /\ cacheReady = TRUE
    /\ memoryCache = [k \in {} |-> ""]
    /\ timers = {}
    /\ call = [p \in Procs |-> Idle]
    /\ tasks = EmptyBag
    /\ codec = CodecIdle
    /\ requests = 0
    /\ faults = 0

PreloadNext ==
    \/ Tick
    \/ \E t \in timers : CacheTimerFire(t)
    \/ \E p \in Procs, raw \in RequestLimits : PostPreload(p, raw)
    \/ \E p \in Procs : PreloadSet(p)
    \/ \E p \in Procs : PreloadSetFails(p)

PreloadSpec == PreloadInit /\ [][PreloadNext]_vars

(***************************************************************************)
(* The service bound to the in-memory db client (db/client.js): `urls` is  *)
(* its Map and `seq` is currentId - 1.  db.query picks a branch by the     *)
(* text of the statement and never throws; each operator below is the      *)
(* branch that the statement of one service step reaches.                  *)
(***************************************************************************)
\* Array.from(urls.values()).find(...): of the entries `ids`, the first in
\* the Map's insertion order, which is id order
MemFirst(ids) == {i \in ids : \A j \in ids : i <= j}

\* 'SELECT short_code FROM urls WHERE original_url = $1 AND ...': the branch
\* "SELECT for duplicate check" compares original_url only
MemDedupRows(table, url) ==
    MemFirst({i \in DOMAIN table : table[i].original_url = url})

\* 'INSERT INTO urls ... VALUES ($1, $2, $3)' with params[2] === 'TEMP': the
\* branch "Initial insert" returns currentId++ and leaves the Map alone
MemInsertedTemp(table, id, row) == table

\* 'UPDATE urls SET short_code = $1 WHERE id = $2': the branch "UPDATE query
\* simulation" returns { rowCount: 1 } and leaves the Map alone
MemUpdatedCode(table, id, code) == table

\* 'SELECT ... FROM urls WHERE short_code = $1' (getOriginalUrl, getUrlStats):
\* the branch "SELECT by short_code"
MemRowsByCode(table, code) ==
    MemFirst({i \in DOMAIN table : table[i].short_code = code})

\* getUrlStats against the in-memory client
MemGetUrlStats(table, code) ==
    IF MemRowsByCode(table, code) = {} THEN NULL
    ELSE <<table[CHOOSE i \in MemRowsByCode(table, code) : TRUE]>>

\* 'UPDATE urls SET click_count = click_count + 1 WHERE short_code = $1': the
\* branch "UPDATE click count" increments the first entry with the code
MemIncrementedClicks(table, code) ==
    [i \in DOMAIN table |->
        IF i \in MemRowsByCode(table, code)
        THEN [table[i] EXCEPT !.click_count = @ + 1] ELSE table[i]]

\* 'DELETE FROM urls \n WHERE expires_at IS NOT NULL ...' (cleanupExpiredUrls):
\* the text does not contain 'DELETE FROM urls WHERE expires_at' on one
\* line, no branch matches, and the last return answers no rows
MemExpiredRows(table, t) == {}

\* the first statement of createShortUrl sent to the in-memory client
MemInsertStep(p, c) ==
    LET id == seq + 1
    IN  /\ seq' = id
        /\ urls' = MemInsertedTemp(urls, id, InsertedRow(c.url, c.exp, TEMP))
        /\ Becomes(p, [c EXCEPT !.pc = "w_update", !.id = id,
                                !.code = idToBase62(id)])

\* POST /api/shorten: the route's checks, the validation, and the first
\* statement (the duplicate check, or the INSERT for a request with expiry)
MemPostShorten(p, rawUrl, rawExp) ==
    /\ Accepts(p)
    /\ IdsCommitted < MaxId
    /\ requests' = requests + 1
    /\ LET exp == IF rawExp.kind = "date" THEN <<rawExp.t>> ELSE NULL
           url == Trim(rawUrl)
           c == [Idle EXCEPT !.op = "shorten", !.url = url, !.exp = exp]
           refusal ==
             IF rawUrl = "" THEN "URL is required"
             ELSE IF rawExp.kind = "invalid" THEN "Invalid expires_at format"
             ELSE IF ExpiryInPast(rawExp, now) THEN "expires_at must be in the future"
             ELSE IF ~IsURL(url) THEN "Invalid URL format"
             ELSE IF TooLong(url) THEN "URL too long"
             ELSE ""
       IN  IF refusal # ""
           THEN /\ Becomes(p, Rejected(refusal))
                /\ UNCHANGED <<urls, seq>>
           ELSE IF exp # NULL THEN MemInsertStep(p, c)
           ELSE IF MemDedupRows(urls, url) = {}
           THEN /\ Becomes(p, [c EXCEPT !.pc = "w_insert"])
                /\ UNCHANGED <<urls, seq>>
           ELSE /\ \E i \in MemDedupRows(urls, url) :
                      Becomes(p, Created(c, urls[i].short_code, FALSE))
                /\ UNCHANGED <<urls, seq>>
    /\ UNCHANGED <<now, cacheReady, memoryCache, timers, tasks, faults, codec>>

\* step 3 of a request whose duplicate check found nothing
MemInsertRow(p) ==
    /\ call[p].pc = "w_insert"
    /\ MemInsertStep(p, call[p])
    /\ UNCHANGED <<now, cacheReady, memoryCache, timers, tasks, requests, faults, codec>>

\* step 5, then the isReady test
MemUpdateCode(p) ==
    /\ call[p].pc = "w_update"
    /\ urls' = MemUpdatedCode(urls, call[p].id, call[p].code)
    /\ Becomes(p, IF cacheReady THEN [call[p] EXCEPT !.pc = "w_cache"]
                  ELSE Created(call[p], call[p].code, TRUE))
    /\ UNCHANGED <<now, seq, cacheReady, memoryCache, timers, tasks, requests,
                   faults, codec>>

\* steps 2 and 3 of getOriginalUrl; 'DELETE FROM urls WHERE short_code = $1'
\* of the detached deleteExpiredUrl matches no branch of the client
MemDbLookup(p) ==
    /\ call[p].pc = "r_db"
    /\ \/ /\ MemRowsByCode(urls, call[p].code) = {}
          /\ Becomes(p, NotFound(call[p]))
          /\ UNCHANGED tasks
       \/ \E i \in MemRowsByCode(urls, call[p].code) :
             IF RowIsDead(urls[i], now)
             THEN /\ tasks' = Spawned(DeleteTask(call[p].code))
                  /\ Becomes(p, NotFound(call[p]))
             ELSE IF cacheReady
             THEN /\ Becomes(p, [call[p] EXCEPT !.pc = "r_set",
                                              !.url = urls[i].original_url])
                  /\ UNCHANGED tasks
             ELSE /\ tasks' = Spawned(IncrementTask(call[p].code))
                  /\ Becomes(p, Found(call[p], urls[i].original_url, "store"))
    /\ UNCHANGED <<now, urls, seq, cacheReady, memoryCache, timers, requests,
                   faults, codec>>

\* the detached incrementClickCount
MemRunIncrement(t) ==
    /\ BagIn(t, tasks)
    /\ t.kind = "incr"
    /\ urls' = MemIncrementedClicks(urls, t.code)
    /\ tasks' = Settled(t)
    /\ UNCHANGED <<now, seq, cacheReady, memoryCache, timers, call, requests,
                   faults, codec>>

\* POST /api/admin/cleanup
MemPostCleanup(p) ==
    /\ Accepts(p)
    /\ requests' = requests + 1
    /\ LET c == [Idle EXCEPT !.op = "cleanup"]
           gone == MemExpiredRows(urls, now)
       IN  /\ urls' = WithoutRows(urls, gone)
           /\ Becomes(p,
                IF gone = {}
                THEN [c EXCEPT !.pc = "done", !.ret = "value", !.status = 200]
                ELSE [c EXCEPT !.pc = "c_evict", !.count = Cardinality(gone),
                               !.rows = ReturnedCodes(urls, gone)])
    /\ UNCHANGED <<now, seq, cacheReady, memoryCache, timers, tasks, faults, codec>>

\* the service with the in-memory client.  No step stores an entry in the
\* Map, so a read never finds a row: the steps that follow a found row (the
\* cache.set of step 4, deleteExpiredUrl, the eviction loop of the cleanup)
\* are never enabled and are left out
MemNext ==
    \/ Tick
    \/ \E t \in timers : CacheTimerFire(t)
    \/ \E p \in Procs, u \in RequestUrls, e \in RequestExpiries : MemPostShorten(p, u, e)
    \/ \E p \in Procs : MemInsertRow(p)
    \/ \E p \in Procs : MemUpdateCode(p)
    \/ \E p \in Procs : WarmCache(p)
    \/ \E p \in Procs : WarmCacheFails(p)
    \/ \E p \in Procs, c \in RequestCodes : GetShortCode(p, c)
    \/ \E p \in Procs : MemDbLookup(p)
    \/ \E t \in BagToSet(tasks) : MemRunIncrement(t)
    \/ \E p \in Procs : MemPostCleanup(p)

MemSpec == Init /\ [][MemNext]_vars

(***************************************************************************)
(* The codec on its own: ids are drawn, encoded, and decoded again         *)
(***************************************************************************)
\* the ids of the unit tests around the digit boundaries 62, 62^2 and 62^3,
\* and the largest id of the round-trip test
LandmarkIds == {3843, 3844, 238327, 238328, 999999, 1234567890}

CodecIds == (0..MaxCodecId) \cup LandmarkIds

CodecInit ==
    /\ now = 0
    /\ urls = [i \in {} |-> 0]
    /\ seq = 0
    /\ cacheReady = FALSE
    /\ memoryCache = [k \in {} |-> ""]
    /\ timers = {}
    /\ call = [p \in Procs |-> Idle]
    /\ tasks = EmptyBag
    /\ requests = 0
    /\ faults = 0
    /\ \E a \in CodecIds, b \in CodecIds :
          codec = [CodecIdle EXCEPT !.pc = "drawn", !.id = a, !.id2 = b]

\* const base62 = idToBase62(id), for both ids
CodecEncode ==
    /\ codec.pc = "drawn"
    /\ codec' = [codec EXCEPT !.pc = "encoded",
                              !.code = idToBase62(codec.id),
                              !.code2 = idToBase62(codec.id2)]
    /\ UNCHANGED <<now, urls, seq, cacheReady, memoryCache, timers, call, tasks,
                   requests, faults>>

\* const decoded = base62ToId(base62)
CodecDecode ==
    /\ codec.pc = "encoded"
    /\ codec' = [codec EXCEPT !.pc = "decoded", !.decoded = base62ToId(codec.code)]
    /\ UNCHANGED <<now, urls, seq, cacheReady, memoryCache, timers, call, tasks,
                   requests, faults>>

CodecNext == CodecEncode \/ CodecDecode

CodecSpec == CodecInit /\ [][CodecNext]_vars

(***************************************************************************)
(* The decoder on its own: a string is given and decoded                   *)
(***************************************************************************)
\* the characters of the strings given to base62ToId: digits and letters of
\* both cases, and characters outside the alphabet (as in 'abc!' and
\* 'hello world' of the unit tests)
DecodeChars == {"0", "1", "9", "a", "z", "A", "Z", "!", " "}

\* the strings of at most MaxStrLen characters, the empty string included
DecodeStrings == UNION {[1..n -> DecodeChars] : n \in 0..MaxStrLen}

DecodeInit ==
    /\ now = 0
    /\ urls = [i \in {} |-> 0]
    /\ seq = 0
    /\ cacheReady = FALSE
    /\ memoryCache = [k \in {} |-> ""]
    /\ timers = {}
    /\ call = [p \in Procs |-> Idle]
    /\ tasks = EmptyBag
    /\ requests = 0
    /\ faults = 0
    /\ \E s \in DecodeStrings : codec = [CodecIdle EXCEPT !.pc = "given", !.code = s]

\* base62ToId(str) for the given string
CodecDecodeString ==
    /\ codec.pc = "given"
    /\ codec' = [codec EXCEPT !.pc = "decoded", !.decoded = base62ToId(codec.code)]
    /\ UNCHANGED <<now, urls, seq, cacheReady, memoryCache, timers, call, tasks,
                   requests, faults>>

DecodeNext == CodecDecodeString

DecodeSpec == DecodeInit /\ [][DecodeNext]_vars

(***************************************************************************)
(* estimateLength and getCapacity (lib/id-generator.js).  The arguments    *)
(* and results are JavaScript Numbers, IEEE-754 doubles; a positive count  *)
(* is written 62^k + d with 0 <= d < 61 * 62^k as [pos |-> TRUE, k, d],    *)
(* and a count <= 0 is written -d as [pos |-> FALSE, k |-> 0, d].          *)
(***************************************************************************)
\* the distance between neighbouring doubles at 62^k: 1 below 2^53 (k <= 8),
\* 2 at 62^9, 128 at 62^10
Ulp(k) == IF k <= 8 THEN 1 ELSE IF k = 9 THEN 2 ELSE 128

\* Math.log(urlCount) / Math.log(BASE) for urlCount = 62^k + d is the double
\* k up to this excess d and a double above k from FirstResolved(k) on, with
\* the fdlibm log of V8 and with the log of glibc alike; between the two the
\* result depends on the library.  Below 2^53 (k <= 8) every integer excess
\* is resolved.
LastUnresolved(k) == IF k <= 8 THEN 0 ELSE IF k = 9 THEN 24 ELSE 5376
FirstResolved(k) == IF k <= 8 THEN 1 ELSE IF k = 9 THEN 28 ELSE 5504

\* Math.ceil(Math.log(urlCount) / Math.log(BASE)): the values it can take
LogRatioCeils(count) ==
    IF count.d <= LastUnresolved(count.k) THEN {count.k}
    ELSE IF count.d >= FirstResolved(count.k) THEN {count.k + 1}
    ELSE {count.k, count.k + 1}

\* estimateLength(urlCount): the values it can return
estimateLength(urlCount) ==
    IF ~urlCount.pos THEN {1}
    ELSE {IF c < 1 THEN 1 ELSE c : c \in LogRatioCeils(urlCount)}

\* getCapacity(length): Math.pow(BASE, length), exact for the lengths here
getCapacity(length) == [pos |-> TRUE, k |-> length, d |-> 0]

\* a <= b for two positive counts
CountLeq(a, b) == a.k < b.k \/ (a.k = b.k /\ a.d <= b.d)

\* the counts given to estimateLength: 0 and -1, and the integers 62^k + d
\* that are doubles
EstimateCounts ==
    {[pos |-> FALSE, k |-> 0, d |-> d] : d \in 0..1}
        \cup {c \in [pos : {TRUE}, k : 0..MaxPower, d : 0..MaxExcess] :
                 /\ c.d % Ulp(c.k) = 0
                 /\ c.k = 0 => c.d < 61}

EstimateInit ==
    /\ now = 0
    /\ urls = [i \in {} |-> 0]
    /\ seq = 0
    /\ cacheReady = FALSE
    /\ memoryCache = [k \in {} |-> ""]
    /\ timers = {}
    /\ call = [p \in Procs |-> Idle]
    /\ tasks = EmptyBag
    /\ requests = 0
    /\ faults = 0
    /\ \E c \in EstimateCounts : codec = [CodecIdle EXCEPT !.pc = "counted", !.count = c]

\* getCapacity(estimateLength(count))
CodecEstimate ==
    /\ codec.pc = "counted"
    /\ \E len \in estimateLength(codec.count) :
          codec' = [codec EXCEPT !.pc = "estimated", !.length = len,
                                 !.capacity = getCapacity(len)]
    /\ UNCHANGED <<now, urls, seq, cacheReady, memoryCache, timers, call, tasks,
                   requests, faults>>

EstimateNext == CodecEstimate

EstimateSpec == EstimateInit /\ [][EstimateNext]_vars

(***************************************************************************)
(* The cache client on its own (cache/client.js): callers that set keys at *)
(* different times, and the timers of the sets.  The record of a caller    *)
(* keeps the key, the value and the time of its set.                       *)
(***************************************************************************)
CacheInit == Init /\ cacheReady

\* cache.set(key, value, { EX: config.redis.ttl }) called by `p` at time `now`
CacheSet(p, key, value) ==
    /\ call[p].pc = "idle"
    /\ memoryCache' = CacheAfterSet(memoryCache, key, value)
    /\ timers' = TimersAfterSet(timers, key, now)
    /\ Becomes(p, [Idle EXCEPT !.op = "set", !.pc = "done", !.code = key,
                               !.url = value, !.at = now, !.ret = "value"])
    /\ UNCHANGED <<now, urls, seq, cacheReady, tasks, requests, faults, codec>>

CacheNext ==
    \/ Tick
    \/ \E t \in timers : CacheTimerFire(t)
    \/ \E p \in Procs, k \in RequestCodes, v \in ValidUrls : CacheSet(p, k, v)

CacheSpec == CacheInit /\ [][CacheNext]_vars

(***************************************************************************)
(* C1: in every reachable state no two rows carry the same short_code, and *)
(* every createShortUrl call for a valid URL that meets no store outage    *)
(* completes successfully (it is refused only by the validation of its     *)
(* input or by a store that is unavailable)                                *)
(***************************************************************************)
ValidationMessages ==
    {"URL is required", "Invalid expires_at format",
     "expires_at must be in the future", "Invalid URL format", "URL too long"}

UniqueCodesAndCreatesSucceed ==
    /\ \A i, j \in DOMAIN urls :
          i # j => urls[i].short_code # urls[j].short_code
    /\ \A p \in Procs :
          (call[p].op = "shorten" /\ call[p].pc = "done" /\ call[p].ret = "throw")
              => call[p].error \in ValidationMessages \cup {"store unavailable"}

(***************************************************************************)
(* C2: a getOriginalUrl call that returns while the row of its short code  *)
(* has an expires_at that has passed returns null (or fails with the       *)
(* store), whatever the cache holds                                        *)
(***************************************************************************)
ExpiredNeverServed ==
    [][\A p \in Procs :
          ( /\ call'[p] # call[p]
            /\ call'[p].op = "redirect"
            /\ call'[p].pc = "done"
            /\ \E i \in DOMAIN urls :
                  /\ urls[i].short_code = call'[p].code
                  /\ Expired(urls[i].expires_at, now) )
          => call'[p].ret # "value"]_vars

(***************************************************************************)
(* C3: for every non-negative integer id, base62ToId(idToBase62(id)) = id  *)
(***************************************************************************)
RoundTrip ==
    codec.pc = "decoded" =>
        codec.decoded.error = "" /\ codec.decoded.value = codec.id

\* a code of several digits has been decoded
RoundTripWitness ==
    /\ codec.pc = "decoded"
    /\ codec.id = 1234567890
    /\ Len(codec.code) = 6
    /\ codec.decoded.value = 1234567890

(***************************************************************************)
(* C4: idToBase62 is injective: two distinct non-negative ids never get    *)
(* the same code                                                           *)
(***************************************************************************)
EncodeInjective ==
    (codec.pc \in {"encoded", "decoded"} /\ codec.id # codec.id2)
        => codec.code # codec.code2

\* two distinct ids whose codes end in the same digit
EncodeInjectiveWitness ==
    /\ codec.pc = "encoded"
    /\ codec.id = 1
    /\ codec.id2 = 63
    /\ codec.code = <<"1">>
    /\ codec.code2 = <<"1", "1">>

(***************************************************************************)
(* C5, as stated: a createShortUrl call without expiry, for a URL of which  *)
(* a non-expiring record was created by an earlier completed call, returns *)
(* isNew=false with that record's shortCode and creates no record          *)
(***************************************************************************)
\* row i was created by a createShortUrl call that has returned its code
CreatedByCompletedCall(i) ==
    /\ i \in DOMAIN urls
    /\ urls[i].short_code = idToBase62(i)
    /\ \A q \in Procs :
          ~(call[q].pc \in {"w_update", "w_cache"} /\ call[q].id = i)

Absent == [kind |-> "absent", t |-> 0]

CacheNeverAuthoritative ==
    [][\A p \in Procs :
          ( /\ call'[p] # call[p]
            /\ call'[p].op = "redirect"
            /\ call'[p].pc = "done"
            /\ call'[p].from = "cache" )
          => \E i \in RowsByCode(urls, call'[p].code) :
                /\ ~Expired(urls[i].expires_at, now)
                /\ urls[i].original_url = call'[p].url]_vars

(***************************************************************************)
(* C7: when getOriginalUrl has missed the cache, found a non-expired row   *)
(* in the store and the cache is available (ready, and its set succeeds),  *)
(* the cache holds shortCode -> original_url of that row when the call     *)
(* returns                                                                 *)
(***************************************************************************)
WarmOnMissFillsCache ==
    [][\A p \in Procs :
          /\ (call[p].pc = "r_db" /\ call'[p].pc = "r_set")
                => /\ cacheReady
                   /\ \E i \in RowsByCode(urls, call[p].code) :
                         /\ ~Expired(urls[i].expires_at, now)
                         /\ call'[p].url = urls[i].original_url
          /\ ( /\ call[p].pc = "r_set"
               /\ call'[p].pc = "done"
               /\ "warm" \notin call'[p].warn )
                => /\ call'[p].ret = "value"
                   /\ call'[p].url = call[p].url
                   /\ CacheHas(memoryCache', call[p].code)
                   /\ memoryCache'[call[p].code] = call[p].url]_vars

\* a read served from the store has returned, and the cache holds its entry
WarmOnMissWitness ==
    \E p \in Procs :
        /\ call[p].op = "redirect" /\ call[p].pc = "done"
        /\ call[p].from = "store" /\ call[p].warn = {}
        /\ call[p].code # TEMP
        /\ cacheReady
        /\ CacheHas(memoryCache, call[p].code)
        /\ memoryCache[call[p].code] = call[p].url

(***************************************************************************)
(* C8: when the cache is not ready or its lookup throws, getOriginalUrl    *)
(* goes on to the store as on a miss and returns what the store lookup     *)
(* yields: the url of the live row, null when there is none, and the       *)
(* store's error only when the store itself fails                          *)
(***************************************************************************)
CacheOutageIsAMiss ==
    [][\A p \in Procs :
          /\ \A c \in RequestCodes :
                ( /\ requests' # requests
                  /\ CodeRefusal(c) = ""
                  /\ (~cacheReady \/ faults' # faults)
                  /\ GetShortCode(p, c) )
                => call'[p].pc = "r_db" /\ call'[p].code = c
          /\ ( /\ call[p].pc = "r_db"
               /\ call'[p] # call[p]
               /\ (~cacheReady \/ "lookup" \in call[p].warn) )
                => IF faults' # faults
                   THEN call'[p].pc = "done" /\ call'[p].ret = "throw"
                   ELSE IF \E i \in RowsByCode(urls, call[p].code) :
                              ~Expired(urls[i].expires_at, now)
                   THEN /\ \/ call'[p].pc = "r_set"
                           \/ (call'[p].pc = "done" /\ call'[p].ret = "value")
                        /\ \E i \in RowsByCode(urls, call[p].code) :
                              /\ ~Expired(urls[i].expires_at, now)
                              /\ call'[p].url = urls[i].original_url
                   ELSE call'[p].pc = "done" /\ call'[p].ret = "null"
          /\ (call[p].pc = "r_set" /\ call'[p] # call[p])
                => /\ call'[p].pc = "done"
                   /\ call'[p].ret = "value"
                   /\ call'[p].url = call[p].url]_vars

\* a read whose cache lookup threw has returned the url of the stored row
CacheOutageWitness ==
    \E p \in Procs, i \in DOMAIN urls :
        /\ call[p].op = "redirect" /\ call[p].pc = "done"
        /\ "lookup" \in call[p].warn
        /\ call[p].code # TEMP
        /\ call[p].ret = "value" /\ call[p].from = "store"
        /\ urls[i].short_code = call[p].code
        /\ urls[i].original_url = call[p].url

(***************************************************************************)
(* C9: when the cache set of step 6 throws, createShortUrl still returns   *)
(* the new shortCode with isNew=true, and the failure leaves the table as  *)
(* it is: the row of the call keeps its url and its code                   *)
(***************************************************************************)
WarmFailureKeepsWrite ==
    [][\A p \in Procs :
          ( /\ call[p].pc = "w_cache"
            /\ call'[p] # call[p]
            /\ faults' # faults )
          => /\ call'[p].pc = "done"
             /\ call'[p].ret = "value"
             /\ call'[p].isNew = TRUE
             /\ call'[p].status = 201
             /\ call'[p].code = idToBase62(call[p].id)
             /\ urls' = urls
             /\ call[p].id \in DOMAIN urls
                  => /\ urls'[call[p].id].short_code = call'[p].code
                     /\ urls'[call[p].id].original_url = call'[p].url]_vars

\* a create whose cache set threw has returned, and its row is in the table
WarmFailureWitness ==
    \E p \in Procs :
        /\ call[p].op = "shorten" /\ call[p].pc = "done"
        /\ "warm" \in call[p].warn
        /\ call[p].ret = "value" /\ call[p].isNew
        /\ call[p].id \in DOMAIN urls
        /\ urls[call[p].id].short_code = call[p].code
        /\ urls[call[p].id].original_url = call[p].url

(***************************************************************************)
(* C10: a create request whose expires_at lies in the past is answered     *)
(* with a validation error (400); no row is inserted, no id is drawn and   *)
(* the cache is not written                                                *)
(***************************************************************************)
PastExpiryIsRejected ==
    [][\A p \in Procs, u \in RequestUrls, e \in RequestExpiries :
          ( /\ e.kind = "date"
            /\ e.t < now
            /\ PostShorten(p, u, e) )
          => /\ call'[p].pc = "done"
             /\ call'[p].ret = "throw"
             /\ call'[p].status = 400
             /\ call'[p].error \in {"expires_at must be in the future",
                                    "URL is required"}
             /\ urls' = urls
             /\ seq' = seq
             /\ memoryCache' = memoryCache
             /\ timers' = timers]_vars

\* a create request has been refused for its past expiry, after the clock moved
PastExpiryWitness ==
    \E p \in Procs :
        /\ call[p].op = "shorten" /\ call[p].pc = "done"
        /\ call[p].error = "expires_at must be in the future"
        /\ call[p].status = 400
        /\ now > 0

(***************************************************************************)
(* C11: a create request whose expires_at is not strictly in the future    *)
(* (in the past, or exactly the current time) is answered with a           *)
(* validation error (400) and no row is inserted                           *)
(***************************************************************************)
ExpiryNotInFutureIsRejected ==
    [][\A p \in Procs, u \in RequestUrls, e \in RequestExpiries :
          ( /\ e.kind = "date"
            /\ e.t <= now
            /\ PostShorten(p, u, e) )
          => /\ call'[p].pc = "done"
             /\ call'[p].ret = "throw"
             /\ call'[p].status = 400
             /\ call'[p].error \in ValidationMessages
             /\ urls' = urls
             /\ seq' = seq]_vars

(***************************************************************************)
(* C12: once the expires_at of a row has passed, every read of its code    *)
(* returns not-found, and it returns in the step that schedules            *)
(* deleteExpiredUrl, without waiting for it; once the scheduled DELETE has *)
(* run, getUrlStats for the code returns null, and once its cache.del has  *)
(* run the key is gone from the cache                                      *)
(***************************************************************************)
ExpiredReadThenRemoved ==
    [][/\ \A p \in Procs :
             ( /\ call'[p] # call[p]
               /\ call'[p].op = "redirect"
               /\ call'[p].pc = "done"
               /\ call'[p].error = ""
               /\ \E i \in RowsByCode(urls, call'[p].code) :
                     Expired(urls[i].expires_at, now) )
             => /\ call'[p].ret = "null"
                /\ call'[p].status = 404
                /\ BagIn(DeleteTask(call'[p].code), tasks')
                /\ urls' = urls
       /\ \A t \in BagToSet(tasks) :
             (t.kind = "del" /\ RunDelete(t) /\ faults' = faults)
                => getUrlStats(urls', t.code) = NULL
       /\ \A t \in BagToSet(tasks) :
             (t.kind = "del" /\ RunDeleteCache(t) /\ faults' = faults)
                => ~CacheHas(memoryCache', t.code)]_vars

(***************************************************************************)
(* C13: cleanupExpiredUrls is idempotent: after a run no row with a passed *)
(* expires_at is left, so that a second run at once would delete nothing,  *)
(* and a run that finds no such row leaves the table as it is and          *)
(* returns 0                                                               *)
(***************************************************************************)
CleanupIsIdempotent ==
    [][\A p \in Procs :
          ( /\ requests' # requests
            /\ faults' = faults
            /\ PostCleanup(p) )
          => /\ \A i \in DOMAIN urls' : ~Expired(urls'[i].expires_at, now')
             /\ (\A i \in DOMAIN urls : ~Expired(urls[i].expires_at, now))
                  => /\ urls' = urls
                     /\ call'[p].pc = "done"
                     /\ call'[p].ret = "value"
                     /\ call'[p].count = 0]_vars

\* one run has deleted rows and is evicting their keys; the run after it
\* has returned 0
CleanupTwiceWitness ==
    /\ call[1].op = "cleanup" /\ call[1].pc = "c_evict" /\ call[1].count >= 1
    /\ call[2].op = "cleanup" /\ call[2].pc = "done"
    /\ call[2].ret = "value" /\ call[2].count = 0
    /\ seq >= 1
    /\ \A i \in DOMAIN urls : ~Expired(urls[i].expires_at, now)

(***************************************************************************)
(* C14: cleanupExpiredUrls deletes exactly the rows whose expires_at has   *)
(* passed and leaves every other row as it is, calls cache.del for the     *)
(* short_code of each deleted row (the key is gone unless the call throws),*)
(* a throwing cache.del does not fail the job, and the job returns the     *)
(* number of rows deleted                                                  *)
(***************************************************************************)
CleanupDeletesExactlyExpired ==
    [][\A p \in Procs :
          /\ ( /\ requests' # requests
               /\ faults' = faults
               /\ PostCleanup(p) )
             => LET gone == {i \in DOMAIN urls : Expired(urls[i].expires_at, now)}
                IN  /\ DOMAIN urls' = DOMAIN urls \ gone
                    /\ \A i \in DOMAIN urls' : urls'[i] = urls[i]
                    /\ call'[p].count = Cardinality(gone)
                    /\ Len(call'[p].rows) = Cardinality(gone)
                    /\ {call'[p].rows[k] : k \in 1..Len(call'[p].rows)}
                          = {urls[i].short_code : i \in gone}
                    /\ gone = {} => /\ call'[p].pc = "done"
                                    /\ call'[p].ret = "value"
                                    /\ call'[p].status = 200
          /\ (call[p].pc = "c_evict" /\ call'[p] # call[p])
             => /\ urls' = urls
                /\ call'[p].count = call[p].count
                /\ call'[p].rows = Tail(call[p].rows)
                /\ call'[p].ret # "throw"
                /\ faults' = faults
                     => ~CacheHas(memoryCache', Head(call[p].rows))
                /\ faults' # faults => memoryCache' = memoryCache
                /\ IF Tail(call[p].rows) = <<>>
                   THEN /\ call'[p].pc = "done"
                        /\ call'[p].ret = "value"
                        /\ call'[p].status = 200
                   ELSE call'[p].pc = "c_evict"]_vars

\* a cleanup has returned 1 after deleting one of two rows: the other row,
\* which is not expired, is still in the table
CleanupFrameWitness ==
    \E p \in Procs :
        /\ call[p].op = "cleanup" /\ call[p].pc = "done"
        /\ call[p].ret = "value" /\ call[p].count = 1
        /\ seq = 2
        /\ Cardinality(DOMAIN urls) = 1
        /\ \A i \in DOMAIN urls : ~Expired(urls[i].expires_at, now)

(***************************************************************************)
(* C15: GET /c for the code c that a completed shorten of url u returned,  *)
(* while the row is not expired and the store answers, responds with       *)
(* status 302 and Location u                                               *)
(***************************************************************************)
LiveCodeRedirects ==
    [][\A p \in Procs, i \in DOMAIN urls :
          ( /\ call'[p] # call[p]
            /\ call'[p].op = "redirect"
            /\ call'[p].pc = "done"
            /\ call'[p].error = ""
            /\ CreatedByCompletedCall(i)
            /\ urls[i].short_code = call'[p].code
            /\ ~Expired(urls[i].expires_at, now) )
          => /\ call'[p].status = RedirectType
             /\ call'[p].url = urls[i].original_url]_vars

(***************************************************************************)
(* C18: getOriginalUrl never waits for the click-count increment or for    *)
(* cache warming: on a hit it returns with the increment it issued still   *)
(* pending, and on a miss the store round trip is the last thing it waits  *)
(* for                                                                     *)
(***************************************************************************)
ReadNeverWaits ==
    [][\A p \in Procs :
          /\ ( /\ call'[p] # call[p]
               /\ call'[p].op = "redirect"
               /\ call'[p].from = "cache" )
             => /\ call'[p].pc = "done"
                /\ BagIn(IncrementTask(call'[p].code), tasks')
          /\ (call[p].pc = "r_db" /\ call'[p] # call[p])
             => call'[p].pc = "done"]_vars

(***************************************************************************)
(* C19: a create that fails on the store (insert or update-code step) is   *)
(* answered with a server error (5xx), and a validation error with 400     *)
(***************************************************************************)
StoreFailureIsServerError ==
    \A p \in Procs :
        (call[p].op = "shorten" /\ call[p].pc = "done" /\ call[p].ret = "throw")
            => IF call[p].error \in ValidationMessages
               THEN call[p].status = 400
               ELSE call[p].status >= 500 /\ call[p].status <= 599

(***************************************************************************)
(* C16, as stated: once getOriginalUrl has returned the url of a live row  *)
(* (its increment is issued), the click_count of the row eventually is at  *)
(* least 1: getUrlStats for the code shows click_count >= 1                *)
(***************************************************************************)
\* an increment issued by a successful read of `code` has not run yet
Pending(code) == BagIn(IncrementTask(code), tasks)

\* a stats lookup for `code` finds a row with click_count >= 1
Counted(code) ==
    /\ getUrlStats(urls, code) # NULL
    /\ getUrlStats(urls, code)[1].click_count >= 1

NoClickLost ==
    [][/\ \A p \in Procs :
             ( /\ call'[p] # call[p]
               /\ call'[p].op = "redirect"
               /\ call'[p].pc = "done"
               /\ call'[p].ret = "value" )
             => tasks' = tasks (+) SetToBag({IncrementTask(call'[p].code)})
       /\ \A t \in BagToSet(tasks) :
             ( /\ t.kind = "incr"
               /\ faults' = faults
               /\ RunIncrement(t) )
             => /\ DOMAIN urls' = DOMAIN urls
                /\ \A i \in DOMAIN urls :
                      urls'[i].click_count =
                          urls[i].click_count
                              + (IF urls[i].short_code = t.code THEN 1 ELSE 0)
                /\ CopiesIn(t, tasks') = CopiesIn(t, tasks) - 1
       /\ (\A t \in BagToSet(tasks) : ~RunIncrement(t))
             => \A i \in DOMAIN urls \cap DOMAIN urls' :
                   urls'[i].click_count = urls[i].click_count]_vars

\* two reads of one code have returned its url, both increments have run,
\* and the row shows two clicks
NoClickLostWitness ==
    \E i \in DOMAIN urls :
        /\ urls[i].click_count = 2
        /\ urls[i].short_code = idToBase62(i)
        /\ ~Pending(urls[i].short_code)
        /\ \A p \in Procs :
              /\ call[p].op = "redirect" /\ call[p].pc = "done"
              /\ call[p].ret = "value"
              /\ call[p].code = urls[i].short_code

(***************************************************************************)
(* C20: a failure of the deduplication lookup is not fatal: the call goes  *)
(* on to the INSERT, which adds a new row for the url, and when it returns *)
(* a code it returns isNew=true, also when a non-expiring row of the url   *)
(* is already stored                                                       *)
(***************************************************************************)
DedupFailureIsNotFatal ==
    [][\A p \in Procs :
          /\ \A u \in RequestUrls :
                ( /\ requests' # requests
                  /\ faults' # faults
                  /\ u # "" /\ IsURL(Trim(u)) /\ ~TooLong(Trim(u))
                  /\ PostShorten(p, u, Absent) )
                => /\ call'[p].pc = "w_insert"
                   /\ call'[p].ret = "none"
                   /\ call'[p].url = Trim(u)
                   /\ "dedup" \in call'[p].warn
                   /\ urls' = urls
          /\ ( /\ call[p].pc = "w_insert"
               /\ "dedup" \in call[p].warn
               /\ call'[p] # call[p]
               /\ call'[p].ret # "throw" )
             => /\ call'[p].pc = "w_update"
                /\ "dedup" \in call'[p].warn
                /\ call'[p].id \notin DOMAIN urls
                /\ call'[p].id \in DOMAIN urls'
                /\ urls'[call'[p].id].original_url = call[p].url
                /\ urls'[call'[p].id].expires_at = NULL
          /\ ( /\ "dedup" \in call[p].warn
               /\ call[p].pc # "done"
               /\ call'[p].pc = "done"
               /\ call'[p].ret = "value" )
             => /\ call'[p].isNew = TRUE
                /\ call'[p].status = 201
                /\ call'[p].code = idToBase62(call[p].id)]_vars

\* a create whose deduplication lookup threw has returned isNew=true although
\* an earlier create had stored a non-expiring row of its url: now there are two
DedupFailureWitness ==
    \E p \in Procs, i \in DOMAIN urls :
        /\ call[p].op = "shorten" /\ call[p].pc = "done"
        /\ "dedup" \in call[p].warn
        /\ call[p].ret = "value" /\ call[p].isNew
        /\ call[p].id \in DOMAIN urls
        /\ i < call[p].id
        /\ CreatedByCompletedCall(i)
        /\ urls[i].original_url = call[p].url
        /\ urls[i].expires_at = NULL
        /\ urls[call[p].id].original_url = call[p].url
        /\ urls[call[p].id].expires_at = NULL
        /\ urls[call[p].id].short_code = call[p].code

(***************************************************************************)
(* C21: a create with an expiry never consults the deduplication query: it *)
(* is refused, or it inserts a new row under a fresh id and, when it       *)
(* returns a value, returns isNew = true, even while a row with its URL    *)
(* exists; and a create that returns isNew = false had no expiry and       *)
(* returns the short_code of a row of its URL whose expires_at is NULL,    *)
(* while no row with an expires_at carries that code                       *)
(***************************************************************************)
DedupOnlyBetweenNonExpiring ==
    [][\A p \in Procs :
          /\ \A u \in RequestUrls, e \in RequestExpiries :
                ( /\ requests' # requests
                  /\ e.kind = "date"
                  /\ PostShorten(p, u, e)
                  /\ call'[p].ret # "throw" )
                    => ( /\ call'[p].pc = "w_update"
                         /\ call'[p].exp = <<e.t>>
                         /\ call'[p].id = seq'
                         /\ seq' = seq + 1
                         /\ call'[p].id \in DOMAIN urls' \ DOMAIN urls
                         /\ urls'[call'[p].id].expires_at = <<e.t>> )
          /\ ( /\ call'[p].op = "shorten"
               /\ call'[p].exp # NULL )
                 => call'[p].pc \in {"w_update", "w_cache"}
          /\ ( /\ call'[p] # call[p]
               /\ call[p].op = "shorten"
               /\ call[p].pc \in {"w_update", "w_cache"}
               /\ call[p].exp # NULL
               /\ call'[p].ret = "value" )
                 => call'[p].isNew
          /\ ( /\ call'[p] # call[p]
               /\ call'[p].op = "shorten"
               /\ call'[p].pc = "done"
               /\ call'[p].ret = "value"
               /\ ~call'[p].isNew )
                 => ( /\ Free(p)
                      /\ requests' # requests
                      /\ \E i \in DOMAIN urls :
                            /\ urls[i].short_code = call'[p].code
                            /\ urls[i].original_url = call'[p].url
                            /\ urls[i].expires_at = NULL
                      /\ \A i \in RowsByCode(urls, call'[p].code) :
                            urls[i].expires_at = NULL )
      ]_vars

\* a create with an expiry has returned isNew = true for its new row while an
\* older row holds the same URL
ExpiringCreateWitness ==
    \E p \in Procs, i, j \in DOMAIN urls :
        /\ i < j
        /\ urls[i].original_url = urls[j].original_url
        /\ urls[j].expires_at # NULL
        /\ call[p].op = "shorten" /\ call[p].pc = "done"
        /\ call[p].ret = "value" /\ call[p].isNew
        /\ call[p].id = j
        /\ urls[j].short_code = call[p].code

(***************************************************************************)
(* C22: the INSERT of a create hands the call the id under which the new   *)
(* row is stored, and a create that returns isNew = true returns           *)
(* shortCode = idToBase62(id) and shortUrl = baseUrl + "/" + shortCode for *)
(* that id; (stated for a create without expiry, whose row no expiry       *)
(* removes) when it returns, the table holds the row of that id with that  *)
(* short_code and the call's original_url                                  *)
(***************************************************************************)
NewCreateIsStored ==
    [][\A p \in Procs :
          /\ ( /\ call'[p] # call[p]
               /\ call'[p].op = "shorten"
               /\ call'[p].pc = "w_update" )
                 => ( /\ call'[p].id = seq'
                      /\ call'[p].id \notin DOMAIN urls
                      /\ call'[p].id \in DOMAIN urls'
                      /\ urls'[call'[p].id].original_url = call'[p].url )
          /\ ( /\ call'[p] # call[p]
               /\ call[p].op = "shorten"
               /\ call[p].pc \in {"w_update", "w_cache"}
               /\ call[p].exp = NULL
               /\ call'[p].pc = "done"
               /\ call'[p].ret = "value" )
                 => ( /\ call'[p].isNew
                      /\ call'[p].id = call[p].id
                      /\ call'[p].code = idToBase62(call'[p].id)
                      /\ call'[p].shortUrl = <<BaseUrl, "/">> \o call'[p].code
                      /\ call'[p].id \in DOMAIN urls'
                      /\ urls'[call'[p].id].short_code = call'[p].code
                      /\ urls'[call'[p].id].original_url = call'[p].url )
      ]_vars

(***************************************************************************)
(* C23: when a new create returns after its cache.set succeeded, the cache *)
(* is ready and maps the returned shortCode to the call's originalUrl; and *)
(* a getOriginalUrl that starts while the ready cache maps its code to a   *)
(* url, and whose cache.get does not throw, returns that url from the      *)
(* cache in its first step, without a query to the store                   *)
(***************************************************************************)
CreateWarmsCacheForNextRead ==
    [][\A p \in Procs :
          /\ ( /\ call'[p] # call[p]
               /\ call[p].op = "shorten"
               /\ call[p].pc = "w_cache"
               /\ call'[p].pc = "done"
               /\ "warm" \notin call'[p].warn )
                 => ( /\ call'[p].ret = "value" /\ call'[p].isNew
                      /\ cacheReady'
                      /\ CacheHas(memoryCache', call'[p].code)
                      /\ memoryCache'[call'[p].code] = call'[p].url
                      /\ call'[p].url = call[p].url )
          /\ \A c \in RequestCodes :
                ( /\ requests' # requests
                  /\ faults' = faults
                  /\ cacheReady
                  /\ CacheHas(memoryCache, c)
                  /\ GetShortCode(p, c) )
                    => ( /\ call'[p].pc = "done"
                         /\ call'[p].ret = "value"
                         /\ call'[p].from = "cache"
                         /\ call'[p].url = memoryCache[c] )
      ]_vars

\* a read of the code of a new create, issued while the entry written by the
\* create is in the cache, has returned the created url from the cache
CreateThenHitWitness ==
    \E p, q \in Procs :
        /\ call[p].op = "shorten" /\ call[p].pc = "done"
        /\ call[p].ret = "value" /\ call[p].isNew
        /\ "warm" \notin call[p].warn
        /\ cacheReady
        /\ CacheHas(memoryCache, call[p].code)
        /\ memoryCache[call[p].code] = call[p].url
        /\ call[q].op = "redirect" /\ call[q].pc = "done"
        /\ call[q].ret = "value" /\ call[q].from = "cache"
        /\ call[q].code = call[p].code
        /\ call[q].url = call[p].url
        /\ DOMAIN urls = {call[p].id}
        /\ faults = 0

(***************************************************************************)
(* C24 (as stated): the rows the preload job selects are at most limit     *)
(* rows of the table, none expired, and no row is selected while a row     *)
(* that has not expired and has a strictly higher click_count is left out  *)
(***************************************************************************)
PreloadTakesTopNonExpired ==
    [][\A p \in Procs : \A raw \in RequestLimits :
          ( /\ requests' # requests
            /\ PostPreload(p, raw)
            /\ call'[p].ret # "throw" )
              => LET rows == call'[p].rows
                     codes == {rows[k].short_code : k \in 1..Len(rows)}
                 IN  /\ Len(rows) <= PreloadLimit(raw)
                     /\ \A k \in 1..Len(rows) : \E i \in DOMAIN urls :
                           /\ urls[i].short_code = rows[k].short_code
                           /\ ~Expired(urls[i].expires_at, now)
                     /\ \A j \in DOMAIN urls :
                           ( /\ ~Expired(urls[j].expires_at, now)
                             /\ urls[j].short_code \notin codes )
                               => \A k \in 1..Len(rows) : \A i \in DOMAIN urls :
                                     urls[i].short_code = rows[k].short_code
                                         => urls[i].click_count >= urls[j].click_count
      ]_vars

(***************************************************************************)
(* C24 (amended): the preload job selects at most limit rows, each with no *)
(* expires_at or an expires_at strictly later than the time of the query,  *)
(* in descending click_count order: a row of that kind is left out only    *)
(* when limit rows were selected and none of them has a lower click_count; *)
(* every turn of the loop writes exactly the entry of its row into the     *)
(* cache and counts it, or fails, logs the code, writes nothing and goes   *)
(* on; the table is never written; and the number returned is the number   *)
(* of selected rows whose cache.set succeeded                              *)
(***************************************************************************)
PreloadTakesTopQueryRows ==
    [][\A p \in Procs :
          /\ urls' = urls
          /\ \A raw \in RequestLimits :
                ( /\ requests' # requests
                  /\ PostPreload(p, raw)
                  /\ call'[p].ret # "throw" )
                    => LET rows == call'[p].rows
                           codes == {rows[k].short_code : k \in 1..Len(rows)}
                       IN  /\ Len(rows) <= PreloadLimit(raw)
                           /\ call'[p].count = 0
                           /\ \A k, m \in 1..Len(rows) :
                                 k # m => rows[k].short_code # rows[m].short_code
                           /\ \A k \in 1..Len(rows) : \E i \in DOMAIN urls :
                                 /\ urls[i].short_code = rows[k].short_code
                                 /\ urls[i].original_url = rows[k].original_url
                                 /\ PreloadLive(urls[i], now)
                                 /\ ~Expired(urls[i].expires_at, now)
                                 /\ \A m \in 1..(k - 1) : \A j \in DOMAIN urls :
                                       urls[j].short_code = rows[m].short_code
                                           => urls[j].click_count >= urls[i].click_count
                           /\ \A j \in DOMAIN urls :
                                 ( /\ PreloadLive(urls[j], now)
                                   /\ urls[j].short_code \notin codes )
                                     => /\ Len(rows) = PreloadLimit(raw)
                                        /\ \A k \in 1..Len(rows) : \A i \in DOMAIN urls :
                                              urls[i].short_code = rows[k].short_code
                                                  => urls[i].click_count >= urls[j].click_count
          /\ ( /\ call[p].pc = "p_set"
               /\ call'[p] # call[p] )
                 => LET row == call[p].rows[call[p].at]
                    IN  /\ call'[p].rows = call[p].rows
                        /\ call'[p].ret # "throw"
                        /\ IF call[p].at < Len(call[p].rows)
                           THEN call'[p].pc = "p_set" /\ call'[p].at = call[p].at + 1
                           ELSE call'[p].pc = "done" /\ call'[p].ret = "value"
                        /\ \/ /\ faults' = faults
                              /\ CacheHas(memoryCache', row.short_code)
                              /\ memoryCache'[row.short_code] = row.original_url
                              /\ \A k \in DOMAIN memoryCache' \ {row.short_code} :
                                    CacheHas(memoryCache, k) /\ memoryCache'[k] = memoryCache[k]
                              /\ call'[p].count = call[p].count + 1
                              /\ call'[p].warn = call[p].warn
                           \/ /\ faults' # faults
                              /\ memoryCache' = memoryCache
                              /\ call'[p].count = call[p].count
                              /\ call'[p].warn = call[p].warn \cup {row.short_code}
          /\ ( /\ call'[p].op = "preload"
               /\ call'[p].ret = "value" )
                 => call'[p].count =
                        Cardinality({k \in 1..Len(call'[p].rows) :
                                        call'[p].rows[k].short_code \notin call'[p].warn})
      ]_vars

\* a job with limit 2 has returned 1: it selected two of three rows, left out
\* the one with the lowest click_count, and one of its two cache.set calls
\* failed and was skipped
PreloadWitness ==
    \E p \in Procs, j \in DOMAIN urls :
        /\ call[p].op = "preload" /\ call[p].pc = "done" /\ call[p].ret = "value"
        /\ Len(call[p].rows) = 2
        /\ call[p].warn = {call[p].rows[1].short_code}
        /\ call[p].count = 1
        /\ CacheHas(memoryCache, call[p].rows[2].short_code)
        /\ ~CacheHas(memoryCache, call[p].rows[1].short_code)
        /\ PreloadLive(urls[j], 0)
        /\ \A k \in 1..2 : urls[j].short_code # call[p].rows[k].short_code
        /\ \A i \in DOMAIN urls : i # j => urls[i].click_count > urls[j].click_count

(***************************************************************************)
(* C25: with the in-memory db client, when createShortUrl returns a new    *)
(* shortCode, the store query of the read path and getUrlStats find a      *)
(* record with that code and the created originalUrl                       *)
(***************************************************************************)
MemCreateIsFound ==
    [][\A p \in Procs :
          ( /\ call'[p] # call[p]
            /\ call'[p].op = "shorten"
            /\ call'[p].pc = "done"
            /\ call'[p].ret = "value"
            /\ call'[p].isNew )
              => /\ \E i \in MemRowsByCode(urls', call'[p].code) :
                       urls'[i].original_url = call'[p].url
                 /\ MemGetUrlStats(urls', call'[p].code) # NULL
                 /\ MemGetUrlStats(urls', call'[p].code)[1].original_url = call'[p].url
      ]_vars

(***************************************************************************)
(* C26: in every step the click_count of a row that stays in the table     *)
(* does not decrease; it changes only in a step of the detached            *)
(* incrementClickCount of the read path (so no step of createShortUrl, of  *)
(* cleanupExpiredUrls, of the clock or of the cache changes it), a new row *)
(* starts at 0, and a read that returns null starts no increment           *)
(***************************************************************************)
ClickCountOnlyByAccounting ==
    [][/\ \A i \in DOMAIN urls \cap DOMAIN urls' :
             urls'[i].click_count >= urls[i].click_count
       /\ (\E i \in DOMAIN urls \cap DOMAIN urls' :
              urls'[i].click_count # urls[i].click_count)
             => /\ call' = call
                /\ \E t \in BagToSet(tasks) : RunIncrement(t)
       /\ \A i \in DOMAIN urls' \ DOMAIN urls : urls'[i].click_count = 0
       /\ \A p \in Procs :
             ( /\ call'[p] # call[p]
               /\ call'[p].op = "redirect"
               /\ call'[p].ret = "null" )
                 => /\ \A t \in BagToSet(tasks') :
                          t.kind = "incr" => CopiesIn(t, tasks') <= CopiesIn(t, tasks)
                    /\ urls' = urls
      ]_vars

\* a counted click is in the table after a cleanup run that started when the
\* increment had settled
ClickCountFrameWitness ==
    \E p \in Procs, i \in DOMAIN urls :
        /\ urls[i].click_count >= 1
        /\ urls[i].short_code # TEMP
        /\ tasks = EmptyBag
        /\ call[p].op = "cleanup" /\ call[p].pc = "done" /\ call[p].ret = "value"

(***************************************************************************)
(* C27: a step of a detached incrementClickCount or deleteExpiredUrl in    *)
(* which the operation throws changes no request's locals or response,     *)
(* writes neither the table nor the cache, and settles the promise without *)
(* starting another; a response once given is only replaced by the next    *)
(* request of its process; and each step of a read starts at most one      *)
(* detached operation, for the code of that read                           *)
(***************************************************************************)
BackgroundFailureIsSilent ==
    [][/\ \A t \in BagToSet(tasks) :
             ( /\ faults' # faults
               /\ RunIncrement(t) \/ RunDelete(t) \/ RunDeleteCache(t) )
                 => /\ call' = call
                    /\ urls' = urls
                    /\ memoryCache' = memoryCache
                    /\ tasks' = Settled(t)
       /\ \A p \in Procs :
             /\ (call[p].pc = "done" /\ call'[p] # call[p])
                   => requests' = requests + 1
             /\ (call'[p] # call[p] /\ call'[p].op = "redirect")
                   => \/ tasks' = tasks
                      \/ /\ call'[p].pc = "done"
                         /\ \/ /\ call'[p].ret = "value"
                               /\ tasks' = Spawned(IncrementTask(call'[p].code))
                            \/ /\ call'[p].ret = "null"
                               /\ tasks' = Spawned(DeleteTask(call'[p].code))
      ]_vars

\* a read has returned the url, its increment has thrown and is gone: the
\* click is not counted and nothing is pending
BackgroundFailureWitness ==
    \E p \in Procs, i \in DOMAIN urls :
        /\ call[p].op = "redirect" /\ call[p].pc = "done" /\ call[p].ret = "value"
        /\ call[p].warn = {}
        /\ call[p].code # TEMP
        /\ urls[i].short_code = call[p].code
        /\ urls[i].original_url = call[p].url
        /\ urls[i].click_count = 0
        /\ tasks = EmptyBag
        /\ faults = 1
        /\ requests = 2

(***************************************************************************)
(* C28: the code of an id is its base-62 numeral over the digits 0-9, then *)
(* a-z, then A-Z, most significant digit first: its k-th character is the  *)
(* digit of value (id div 62^(n-k)) mod 62 for a code of n characters;     *)
(* 0 gives "0", 61 gives "Z", 62 gives "10" (and 1, 9, 10, 35, 36 give     *)
(* "1", "9", "a", "z", "A"), and the code of an id > 0 does not begin      *)
(* with "0"                                                                *)
(***************************************************************************)
StandardDigits ==
    << "0", "1", "2", "3", "4", "5", "6", "7", "8", "9",
       "a", "b", "c", "d", "e", "f", "g", "h", "i", "j", "k", "l", "m",
       "n", "o", "p", "q", "r", "s", "t", "u", "v", "w", "x", "y", "z",
       "A", "B", "C", "D", "E", "F", "G", "H", "I", "J", "K", "L", "M",
       "N", "O", "P", "Q", "R", "S", "T", "U", "V", "W", "X", "Y", "Z" >>

EncodingIsPositional ==
    codec.pc \in {"encoded", "decoded"}
        => LET id == codec.id
               code == codec.code
               n == Len(code)
           IN  /\ n >= 1
               /\ \A k \in 1..n :
                     code[k] = StandardDigits[((id \div (62 ^ (n - k))) % 62) + 1]
               /\ id > 0 => code[1] # "0" /\ 62 ^ (n - 1) <= id
               /\ id = 0 => code = <<"0">>
               /\ id = 1 => code = <<"1">>
               /\ id = 9 => code = <<"9">>
               /\ id = 10 => code = <<"a">>
               /\ id = 35 => code = <<"z">>
               /\ id = 36 => code = <<"A">>
               /\ id = 61 => code = <<"Z">>
               /\ id = 62 => code = <<"1", "0">>

\* 62 and 61 have been encoded as "10" and "Z"
EncodingLandmarksWitness ==
    /\ codec.pc = "encoded"
    /\ codec.id = 62 /\ codec.code = <<"1", "0">>
    /\ codec.id2 = 61 /\ codec.code2 = <<"Z">>

(***************************************************************************)
(* C29: the code of every id is not empty, has between 1 and 10            *)
(* characters, each a digit or a letter, and passes the format check and   *)
(* the length check of the redirect route as well as the constraints of    *)
(* the short_code column                                                   *)
(***************************************************************************)
CodesPassRouteChecks ==
    codec.pc \in {"encoded", "decoded"}
        => \A code \in {codec.code, codec.code2} :
              /\ code # <<>>
              /\ Len(code) \in 1..10
              /\ \A k \in 1..Len(code) :
                    \E d \in 1..62 : code[k] = StandardDigits[d]
              /\ CodeRefusal(code) = ""
              /\ CodeConstraintsOk(code)

\* the largest id of the unit tests and id 0 have been encoded, in 6
\* characters and in 1
CodesPassWitness ==
    /\ codec.pc = "encoded"
    /\ codec.id = 1234567890 /\ Len(codec.code) = 6
    /\ codec.id2 = 0 /\ Len(codec.code2) = 1
    /\ CodeRefusal(codec.code) = "" /\ CodeRefusal(codec.code2) = ""

(***************************************************************************)
(* C30: base62ToId throws for the empty string and for every string with a *)
(* character that is not a digit or a letter; for every other string it    *)
(* returns the value accumulated from left to right as value * 62 + digit  *)
(***************************************************************************)
\* the value of the digit: its place among 0-9, a-z, A-Z
DigitValue(char) == (CHOOSE d \in 1..62 : StandardDigits[d] = char) - 1

RECURSIVE AccumulatedValue(_)
AccumulatedValue(str) ==
    IF str = <<>> THEN 0
    ELSE AccumulatedValue(SubSeq(str, 1, Len(str) - 1)) * 62 + DigitValue(str[Len(str)])

DecodeRejectsOrAccumulates ==
    codec.pc = "decoded"
        => LET str == codec.code
               out == codec.decoded
               foreign == {k \in 1..Len(str) : \A d \in 1..62 : StandardDigits[d] # str[k]}
           IN  /\ str = <<>> => out.error = "Input must be a non-empty string"
               /\ foreign # {} => out.error = "Invalid Base62 character"
               /\ (str # <<>> /\ foreign = {})
                     => out.error = "" /\ out.value = AccumulatedValue(str)

\* "1Z" has been decoded to 1 * 62 + 61
DecodeWitness ==
    /\ codec.pc = "decoded"
    /\ codec.code = <<"1", "Z">>
    /\ codec.decoded = [error |-> "", value |-> 123]

(***************************************************************************)
(* C31: for a count <= 0 estimateLength returns 1; for a count >= 1 it     *)
(* returns the smallest L >= 1 with 62^L >= count; getCapacity(L) is 62^L; *)
(* and so getCapacity(estimateLength(count)) >= count for every count >= 1 *)
(***************************************************************************)
EstimateCoversCount ==
    codec.pc = "estimated"
        => /\ codec.capacity = [pos |-> TRUE, k |-> codec.length, d |-> 0]
           /\ ~codec.count.pos => codec.length = 1
           /\ codec.count.pos
                 => /\ codec.length >= 1
                    /\ CountLeq(codec.count, codec.capacity)
                    /\ \A len \in 1..(codec.length - 1) :
                          ~CountLeq(codec.count, [pos |-> TRUE, k |-> len, d |-> 0])

(***************************************************************************)
(* C32: when a createShortUrl call returns a shortCode, with isNew = true  *)
(* or with isNew = false, the table holds a row whose short_code is that   *)
(* code, whose original_url is the requested url, and whose short_code is  *)
(* idToBase62 of its id (so never the placeholder of a row whose UPDATE    *)
(* has not run yet)                                                        *)
(***************************************************************************)
ReturnedCodeIsCodeOfStoredRow ==
    [][\A p \in Procs :
          ( /\ call'[p] # call[p]
            /\ call'[p].op = "shorten"
            /\ call'[p].pc = "done"
            /\ call'[p].ret = "value" )
              => \E i \in DOMAIN urls' :
                    /\ urls'[i].short_code = call'[p].code
                    /\ urls'[i].original_url = call'[p].url
                    /\ call'[p].code = idToBase62(i)
      ]_vars

(***************************************************************************)
(* C33: a create without expiry whose duplicate check found no row goes on *)
(* to the INSERT whatever has been stored since: unless the statement is   *)
(* refused it adds a new non-expiring row for its url under a fresh id,    *)
(* also when another call has stored a row for the same url in between; so *)
(* two concurrent calls for one url can leave two non-expiring rows, whose *)
(* short codes differ                                                      *)
(***************************************************************************)
ConcurrentCreatesBothInsert ==
    [][/\ \A p \in Procs :
             ( /\ call[p].pc = "w_insert"
               /\ call'[p] # call[p]
               /\ call'[p].ret # "throw" )
                 => /\ call'[p].pc = "w_update"
                    /\ call'[p].id \notin DOMAIN urls
                    /\ call'[p].id \in DOMAIN urls'
                    /\ urls'[call'[p].id] = InsertedRow(call[p].url, NULL, TEMP)
                    /\ \A i \in DOMAIN urls : i \in DOMAIN urls' /\ urls'[i] = urls[i]
       /\ \A i, j \in DOMAIN urls' :
             i # j => urls'[i].short_code # urls'[j].short_code
      ]_vars

\* two calls for one url, both accepted before either had stored a row, have
\* both returned isNew = true, and the table holds their two non-expiring rows
ConcurrentCreatesWitness ==
    \E p, q \in Procs :
        /\ p # q
        /\ requests = 2 /\ faults = 0
        /\ \A r \in {p, q} :
              /\ call[r].op = "shorten" /\ call[r].pc = "done"
              /\ call[r].ret = "value" /\ call[r].isNew
              /\ call[r].id \in DOMAIN urls
              /\ urls[call[r].id].expires_at = NULL
              /\ urls[call[r].id].short_code = idToBase62(call[r].id)
              /\ urls[call[r].id].original_url = call[r].url
        /\ call[p].url = call[q].url
        /\ call[p].id # call[q].id
        /\ urls[call[p].id].short_code # urls[call[q].id].short_code

(***************************************************************************)
(* C34: a create that fails at the update-code step, after its INSERT      *)
(* succeeded, leaves no row of its own behind (the row it inserted with    *)
(* the placeholder code is gone when the call has failed) and writes no    *)
(* cache entry                                                             *)
(***************************************************************************)
FailedCreateLeavesNoRow ==
    [][\A p \in Procs :
          ( /\ call[p].op = "shorten"
            /\ call[p].pc = "w_update"
            /\ call'[p].pc = "done"
            /\ call'[p].ret = "throw" )
              => /\ call[p].id \notin DOMAIN urls'
                 /\ memoryCache' = memoryCache
      ]_vars

(***************************************************************************)
(* C35: when a getOriginalUrl call finishes, no other request is in        *)
(* flight, no detached delete is pending and no operation has failed, the  *)
(* cache holds no entry for the call's short code unless the table still   *)
(* holds the record of that code: a read that raced with the delete of the *)
(* record leaves no entry for it behind                                    *)
(***************************************************************************)
NoEntryForDeletedRecord ==
    [][\A p \in Procs :
          ( /\ faults' = 0
            /\ call[p].op = "redirect"
            /\ call[p].pc = "r_set"
            /\ \A q \in Procs : call'[q].pc \in {"idle", "done"}
            /\ \A t \in BagToSet(tasks') : t.kind # "del"
            /\ call[p].code # TEMP
            /\ CacheHas(memoryCache', call[p].code) )
              => RowsByCode(urls', call[p].code) # {}
      ]_vars

(***************************************************************************)
(* C36: in every reachable state every cache entry agrees with the table:  *)
(* a cached short code that is the short code of a row is mapped to the    *)
(* original_url of that row, so the cache never maps a code to another url *)
(* than the one of the record created with the code                        *)
(***************************************************************************)
CacheMapsCodeToItsUrl ==
    \A code \in DOMAIN memoryCache :
        \A i \in RowsByCode(urls, code) :
            memoryCache[code] = urls[i].original_url

(***************************************************************************)
(* C37: a cache entry lives for the TTL counted from its latest set: an    *)
(* entry leaves the cache only when TtlTicks have passed since every set   *)
(* of its key, also when the key was set again while it was cached         *)
(***************************************************************************)
EntryLivesTtlFromLatestSet ==
    [][\A k \in RequestCodes :
          ( CacheHas(memoryCache, k) /\ ~CacheHas(memoryCache', k) )
              => \A p \in Procs :
                    ( call[p].op = "set" /\ call[p].code = k )
                        => call[p].at + TtlTicks <= now
      ]_vars

(***************************************************************************)
(* C38: the store gives every new record an id strictly greater than every *)
(* id it has assigned before (the ids 1..seq), also after records have     *)
(* been deleted; the rows of the table carry assigned ids only, so no id   *)
(* and no short code idToBase62(id) is assigned to a second record         *)
(***************************************************************************)
IdsStrictlyIncrease ==
    [][/\ seq' >= seq
       /\ DOMAIN urls \subseteq 1..seq
       /\ \A i \in DOMAIN urls' \ DOMAIN urls :
             /\ i > seq
             /\ i = seq'
             /\ \A j \in 1..seq : idToBase62(j) # idToBase62(i)
      ]_vars

\* a record has been given id 2 after the record of id 1 was deleted: the
\* cleanup that deleted record 1 returned it with the placeholder code, which
\* no other row can carry while record 1 is in the table
IdAfterDeleteWitness ==
    \E p, q \in Procs :
        /\ call[p].op = "cleanup"
        /\ call[p].pc = "c_evict"
        /\ call[p].rows = <<TEMP>>
        /\ call[q].op = "shorten"
        /\ call[q].id = 2
        /\ seq = 2
        /\ DOMAIN urls = {2}

(***************************************************************************)
(* C39: a getOriginalUrl call that missed the cache and whose SELECT finds *)
(* no row for its code returns null (404) and changes nothing: the table,  *)
(* the cache and its timers stay as they are and no detached increment or  *)
(* delete is started                                                       *)
(***************************************************************************)
MissWithoutRecordChangesNothing ==
    [][\A p \in Procs :
          ( /\ call[p].pc = "r_db"
            /\ call'[p] # call[p]
            /\ faults' = faults
            /\ RowsByCode(urls, call[p].code) = {} )
              => /\ call'[p].pc = "done"
                 /\ call'[p].ret = "null"
                 /\ call'[p].status = 404
                 /\ urls' = urls
                 /\ seq' = seq
                 /\ memoryCache' = memoryCache
                 /\ timers' = timers
                 /\ tasks' = tasks
      ]_vars

\* a read of the code of id 2, which no record carries, has answered 404 beside
\* the record of id 1; nothing is cached for the code and no task is pending
MissWithoutRecordWitness ==
    \E p \in Procs :
        /\ call[p].op = "redirect"
        /\ call[p].pc = "done"
        /\ call[p].ret = "null"
        /\ call[p].status = 404
        /\ call[p].code = idToBase62(2)
        /\ seq = 1
        /\ DOMAIN urls = {1}
        /\ ~CacheHas(memoryCache, call[p].code)
        /\ tasks = EmptyBag
        /\ faults = 0

====
